---- MODULE Spec2Model ----
(***************************************************************************)
(* State-machine model of the dataset registry, the wrangle tools and the  *)
(* render cache of the EDA engine (src/src/utils, src/src/tools).          *)
(*                                                                         *)
(* A dataset handle "ds_<uuid4>" is modelled by the ordinal of the uuid    *)
(* draw that produced it (uuid4 values are unique by construction), Python *)
(* None by NoId / NoneNum / NoneStr according to the type it stands in for.*)
(* A DataFrame is a record of its ordered columns, its row index labels    *)
(* and its row-major values.                                               *)
(***************************************************************************)
EXTENDS Integers, Sequences, FiniteSets, TLC

VARIABLES
    datasets,       \* data_store._DATASETS: handle -> DataFrame
    dbDatasets,     \* SQLite table "datasets": handle -> metadata row
    parquetFiles,   \* <datasets_dir>/<handle>.parquet: handle -> stored table
    uuidCount,      \* number of uuid4 handles drawn so far
    registered,     \* history: handle -> arguments of its register_dataset call
    cache,          \* dataset_cache._CACHE: handle -> DataFrame
    plotCache,      \* eda_viz_tools._PLOT_CACHE: cache key -> file path
    plotFiles,      \* the .png files present in PLOTS_DIR
    plotCacheFile,  \* PLOTS_DIR/plot_cache.json: serial key -> file path
    plotUuid,       \* number of uuid4 file names drawn so far
    savedArtifacts, \* file names handed to tool_context.save_artifact
    produced,       \* history: <<cache key, file path>> of every plot rendered
    runs,           \* SQLite table "analysis_runs": run_id -> stored row
    lastSave,       \* history: run_id -> the run last saved, and whether it replaced one
    profile,        \* data_quality_tool: n_rows, duplicate_pct and column_models
    userPreferences,\* SQLite table "user_preferences": user_id -> stored row
    state,          \* the session state behind tool_context.state: key -> value
    renders,        \* the render calls in flight: caller -> position and locals
    toolContexts,   \* the ToolContext of each function call: confirmation state
    lineageWalk,    \* the get_dataset_lineage call in progress: position, locals
    result          \* what the last operation returned to its caller

regVars == <<datasets, dbDatasets, parquetFiles, uuidCount, registered>>

vizVars == <<cache, plotCache, plotFiles, plotCacheFile, plotUuid,
             savedArtifacts, produced>>

ledgerVars == <<runs, lastSave>>

qualityVars == <<profile>>

sessionVars == <<userPreferences, state, renders, toolContexts,
                 lineageWalk>>

vars == <<regVars, vizVars, ledgerVars, qualityVars, sessionVars, result>>

(***************************************************************************)
(* Bounds of the model.                                                    *)
(***************************************************************************)
MaxDatasets == 2

(***************************************************************************)
(* Python None.                                                            *)
(***************************************************************************)
NoId == 0
NoneNum == -1
NoneStr == "<None>"

Range(s) == {s[i] : i \in DOMAIN s}

RangeIndex(n) == [i \in 1..n |-> i - 1]

NoFrame == [columns |-> <<>>, index |-> <<>>, data |-> <<>>]

(***************************************************************************)
(* DataFrame helpers (pandas).                                             *)
(***************************************************************************)
NRows(df) == Len(df.index)

NCols(df) == Len(df.columns)

ColPos(df, c) == CHOOSE j \in 1..Len(df.columns) : df.columns[j] = c

HasCol(df, c) == \E j \in 1..Len(df.columns) : df.columns[j] = c

\* df[keep]: the rows at the given positions, labels kept (no reset_index)
TakeRows(df, keep) ==
    [columns |-> df.columns,
     index   |-> [k \in 1..Len(keep) |-> df.index[keep[k]]],
     data    |-> [k \in 1..Len(keep) |-> df.data[keep[k]]]]

\* The values of a frame without its row labels: what "same rows, same
\* columns and same values" compares.
Table(df) == [columns |-> df.columns, data |-> df.data]

(***************************************************************************)
(* Durable columnar storage.                                               *)
(***************************************************************************)
\* df.to_parquet(path, index=False): the row labels are not written
to_parquet(df) == [columns |-> df.columns, data |-> df.data]

\* pd.read_parquet(path): a frame with a fresh RangeIndex
read_parquet(t) ==
    [columns |-> t.columns, index |-> RangeIndex(Len(t.data)), data |-> t.data]

\* Outcomes of PersistentStore.save_dataset: it returns, or it raises (to_parquet
\* or the INSERT failed). A parquet file left behind by a failed INSERT has no
\* metadata row, and no code reads a parquet file without one: it is not kept.
SaveOutcomes == {"saved", "raised"}

DatasetMetadata(df, filename, parent_dataset_id, transformation_note) ==
    [filename            |-> filename,
     n_rows              |-> NRows(df),
     n_columns           |-> NCols(df),
     columns             |-> df.columns,
     parent_dataset_id   |-> parent_dataset_id,
     transformation_note |-> transformation_note]

\* PersistentStore.save_dataset: the parquet files after the call
save_dataset_files(files, df, dataset_id, outcome) ==
    IF outcome = "saved"
    THEN [h \in DOMAIN files \cup {dataset_id} |->
            IF h = dataset_id THEN to_parquet(df) ELSE files[h]]
    ELSE files

\* PersistentStore.save_dataset: the metadata table after the call
\* (INSERT OR REPLACE keyed by dataset_id)
save_dataset_rows(rows, df, dataset_id, filename, parent_dataset_id, transformation_note, outcome) ==
    IF outcome = "saved"
    THEN [h \in DOMAIN rows \cup {dataset_id} |->
            IF h = dataset_id
            THEN DatasetMetadata(df, filename, parent_dataset_id,
                                 transformation_note)
            ELSE rows[h]]
    ELSE rows

\* PersistentStore.get_dataset_metadata
get_dataset_metadata(dataset_id) == dataset_id \in DOMAIN dbDatasets

\* PersistentStore.load_dataset returns a frame (TRUE) or None (FALSE)
load_dataset_found(dataset_id) ==
    /\ get_dataset_metadata(dataset_id)
    /\ dataset_id \in DOMAIN parquetFiles

load_dataset(dataset_id) == read_parquet(parquetFiles[dataset_id])

(***************************************************************************)
(* data_store: register_dataset / get_dataset.                             *)
(***************************************************************************)
\* A handle numbered by the size of _DATASETS in place of a uuid
handle_by_count == Cardinality(DOMAIN datasets) + 1

\* uuid4(): the next handle
uuid4 == uuidCount + 1

\* get_dataset that returns the loaded frame without _DATASETS[dataset_id] = df
get_dataset_no_hydration(dataset_id) ==
    IF dataset_id \in DOMAIN datasets
    THEN [found |-> TRUE, df |-> datasets[dataset_id], mem |-> datasets]
    ELSE IF load_dataset_found(dataset_id)
         THEN [found |-> TRUE, df |-> load_dataset(dataset_id),
               mem |-> datasets]
         ELSE [found |-> FALSE, df |-> NoFrame, mem |-> datasets]

\* get_dataset that looks in _DATASETS only
get_dataset_memory_only(dataset_id) ==
    IF dataset_id \in DOMAIN datasets
    THEN [found |-> TRUE, df |-> datasets[dataset_id], mem |-> datasets]
    ELSE [found |-> FALSE, df |-> NoFrame, mem |-> datasets]

\* get_dataset: found or KeyError, the frame, and _DATASETS afterwards
get_dataset(dataset_id) ==
    IF dataset_id \in DOMAIN datasets
    THEN [found |-> TRUE, df |-> datasets[dataset_id], mem |-> datasets]
    ELSE IF load_dataset_found(dataset_id)
         THEN [found |-> TRUE,
               df    |-> load_dataset(dataset_id),
               mem   |-> [h \in DOMAIN datasets \cup {dataset_id} |->
                            IF h = dataset_id THEN load_dataset(dataset_id)
                            ELSE datasets[h]]]
         ELSE [found |-> FALSE, df |-> NoFrame, mem |-> datasets]

\* register_dataset(df, filename, parent_dataset_id, transformation_note)
\* called with _DATASETS = mem; the handle it returns is uuid4.
register_dataset(mem, df, filename, parent_dataset_id, transformation_note, outcome) ==
    /\ datasets' = [h \in DOMAIN mem \cup {uuid4} |->
                      IF h = uuid4 THEN df ELSE mem[h]]
    /\ parquetFiles' = save_dataset_files(parquetFiles, df, uuid4, outcome)
    /\ dbDatasets' = save_dataset_rows(dbDatasets, df, uuid4, filename,
                                       parent_dataset_id, transformation_note,
                                       outcome)
    /\ uuidCount' = uuidCount + 1
    /\ registered' = [h \in DOMAIN registered \cup {uuid4} |->
                        IF h = uuid4
                        THEN [table   |-> Table(df),
                              parent  |-> parent_dataset_id,
                              note    |-> transformation_note,
                              saved   |-> (outcome = "saved"),
                              cleared |-> FALSE]
                        ELSE registered[h]]

\* The result envelope of a tool (errors.py), with the fields the tools add.
Envelope(op, status, error_type, dataset_id, new_dataset_id, before, after) ==
    [op               |-> op,
     status           |-> status,
     error_type       |-> error_type,
     dataset_id       |-> dataset_id,
     new_dataset_id   |-> new_dataset_id,
     n_before         |-> before,
     n_after          |-> after,
     df               |-> NoFrame,
     lineage          |-> <<>>,
     persist_warning  |-> FALSE,
     key              |-> <<>>,
     requested        |-> <<>>,
     file_path        |-> NoId,
     reused           |-> FALSE,
     data             |-> <<>>]

make_error(op, error_type, dataset_id) ==
    Envelope(op, "error", error_type, dataset_id, NoId, 0, 0)

wrap_success(op, dataset_id, new_dataset_id, before, after) ==
    Envelope(op, "ok", "", dataset_id, new_dataset_id, before, after)

\* An exception that no handler of the tool catches
Raised(op, exc, dataset_id) ==
    Envelope(op, "raised", exc, dataset_id, NoId, 0, 0)

\* no dataset has been profiled
NoProfile == [n_rows |-> 0, duplicate_pct |-> 0, columns |-> <<>>]

\* the stores and caches of a new process
InitStores ==
    /\ datasets = <<>>
    /\ dbDatasets = <<>>
    /\ parquetFiles = <<>>
    /\ uuidCount = 0
    /\ registered = <<>>
    /\ cache = <<>>
    /\ plotCache = <<>>
    /\ plotFiles = {}
    /\ plotCacheFile = <<>>
    /\ plotUuid = 0
    /\ savedArtifacts = {}
    /\ produced = {}
    /\ runs = <<>>
    /\ lastSave = <<>>
    /\ userPreferences = <<>>
    /\ state = <<>>
    /\ renders = <<>>
    /\ toolContexts = <<>>
    /\ lineageWalk = [pc |-> "idle", current_id |-> NoId, lineage |-> <<>>]
    /\ result = Envelope("init", "ok", "", NoId, NoId, 0, 0)

Init == InitStores /\ profile = NoProfile

(***************************************************************************)
(* Ingestion.                                                              *)
(***************************************************************************)
\* pd.read_csv(file_path): the files on disk
CsvFiles == {"data.csv", "missing.csv"}

CsvFrame ==
    [columns |-> <<"a", "b">>,
     index   |-> RangeIndex(3),
     data    |-> << <<1, 5>>, <<2, 5>>, <<9, 5>> >>]

\* ingest_csv_tool around ingest_csv, while fewer than limit handles exist
ingest_csv(limit) ==
    \E file_path \in CsvFiles :
        /\ IF file_path = "data.csv"
           THEN /\ uuidCount < limit
                /\ \E outcome \in SaveOutcomes :
                    register_dataset(datasets, CsvFrame, "unknown", NoId,
                                     NoneStr, outcome)
                /\ result' = wrap_success("ingest", NoId, uuid4, 0,
                                          NRows(CsvFrame))
           ELSE /\ result' = make_error("ingest", "ingestion_error", NoId)
                /\ UNCHANGED regVars
        /\ UNCHANGED <<vizVars, ledgerVars, qualityVars, sessionVars>>

ingest_csv_tool == ingest_csv(MaxDatasets)

(***************************************************************************)
(* Registry operations exposed to the other components.                    *)
(***************************************************************************)
\* Handles a caller may pass: every handle drawn so far and one that was not
Handles == 1..(uuidCount + 1)

\* get(dataset_id): data_store.get_dataset called directly
GetDataset ==
    \E dataset_id \in Handles :
        LET got == get_dataset(dataset_id) IN
        /\ datasets' = got.mem
        /\ result' = IF got.found
                     THEN [wrap_success("get", dataset_id, NoId, 0,
                                        NRows(got.df))
                             EXCEPT !.df = got.df]
                     ELSE Raised("get", "KeyError", dataset_id)
        /\ UNCHANGED <<dbDatasets, parquetFiles, uuidCount, registered>>
        /\ UNCHANGED <<vizVars, ledgerVars, qualityVars, sessionVars>>

\* data_store.clear_datasets
clear_datasets ==
    /\ datasets' = <<>>
    /\ registered' = [h \in DOMAIN registered |->
                        [registered[h] EXCEPT !.cleared = TRUE]]
    /\ result' = wrap_success("clear_datasets", NoId, NoId, 0, 0)
    /\ UNCHANGED <<dbDatasets, parquetFiles, uuidCount>>
    /\ UNCHANGED <<vizVars, ledgerVars, qualityVars, sessionVars>>

(***************************************************************************)
(* Lineage.                                                                *)
(***************************************************************************)
\* get_dataset_lineage with lineage.insert(0, metadata): root first
RECURSIVE lineage_loop_root_first(_, _)
lineage_loop_root_first(lineage, current_id) ==
    IF current_id = NoId
    THEN lineage
    ELSE IF get_dataset_metadata(current_id)
         THEN lineage_loop_root_first(<<current_id>> \o lineage,
                                      dbDatasets[current_id].parent_dataset_id)
         ELSE lineage

\* PersistentStore.get_dataset_lineage: the while loop, one iteration per call
RECURSIVE lineage_loop(_, _)
lineage_loop(lineage, current_id) ==
    IF current_id = NoId
    THEN lineage
    ELSE IF get_dataset_metadata(current_id)
         THEN lineage_loop(Append(lineage, current_id),
                           dbDatasets[current_id].parent_dataset_id)
         ELSE lineage

get_dataset_lineage(dataset_id) == lineage_loop(<<>>, dataset_id)

\* memory_tools.get_dataset_lineage_tool
get_dataset_lineage_tool ==
    \E dataset_id \in Handles :
        /\ result' = IF get_dataset_lineage(dataset_id) = <<>>
                     THEN make_error("lineage", "dataset_not_found", dataset_id)
                     ELSE [wrap_success("lineage", dataset_id, NoId, 0, 0)
                             EXCEPT !.lineage = get_dataset_lineage(dataset_id)]
        /\ UNCHANGED regVars
        /\ UNCHANGED <<vizVars, ledgerVars, qualityVars, sessionVars>>

(***************************************************************************)
(* Wrangle: filter.                                                        *)
(***************************************************************************)
\* Filter conditions (pandas query strings), parsed: "<col> >= <ge>".
\* parses = FALSE is a string DataFrame.query cannot parse.
Conditions ==
    {[text |-> "a >= 2",  parses |-> TRUE,  col |-> "a",  ge |-> 2],
     [text |-> "zz >= 2", parses |-> TRUE,  col |-> "zz", ge |-> 2],
     [text |-> "a >=",    parses |-> FALSE, col |-> "a",  ge |-> 0]}

\* df.query(condition) raises
query_raises(df, condition) ==
    \/ ~condition.parses
    \/ ~HasCol(df, condition.col)

\* df.query(condition)
query(df, condition) ==
    TakeRows(df, SelectSeq([i \in 1..NRows(df) |-> i],
                           LAMBDA i : df.data[i][ColPos(df, condition.col)]
                                        >= condition.ge))

\* wrangle_filter_rows_tool around apply_row_filter
wrangle_filter_rows_tool ==
    \E dataset_id \in Handles, condition \in Conditions :
        LET got == get_dataset(dataset_id) IN
        /\ IF ~got.found
           THEN /\ result' = make_error("filter", "dataset_not_found",
                                        dataset_id)
                /\ UNCHANGED regVars
           ELSE IF query_raises(got.df, condition)
           THEN /\ datasets' = got.mem
                /\ result' = make_error("filter", "expression_error",
                                        dataset_id)
                /\ UNCHANGED <<dbDatasets, parquetFiles, uuidCount,
                               registered>>
           ELSE /\ uuidCount < MaxDatasets
                /\ \E outcome \in SaveOutcomes :
                    register_dataset(got.mem, query(got.df, condition),
                                     "filtered", dataset_id, condition.text,
                                     outcome)
                /\ result' = wrap_success("filter", dataset_id, uuid4,
                                          NRows(got.df),
                                          NRows(query(got.df, condition)))
        /\ UNCHANGED <<vizVars, ledgerVars, qualityVars, sessionVars>>

(***************************************************************************)
(* Wrangle: select.                                                        *)
(***************************************************************************)
ColumnLists == {<<"a">>, <<"a", "zz">>}

\* df[columns].copy()
select(df, columns) ==
    [columns |-> columns,
     index   |-> df.index,
     data    |-> [i \in 1..NRows(df) |->
                    [j \in 1..Len(columns) |->
                        df.data[i][ColPos(df, columns[j])]]]]

\* select_columns that keeps the requested columns the frame has and registers
\* them before it reports the missing ones
select_columns_existing(limit) ==
    \E dataset_id \in Handles, columns \in ColumnLists :
        LET got == get_dataset(dataset_id)
            missing == SelectSeq(columns, LAMBDA c : ~HasCol(got.df, c))
            present == SelectSeq(columns, LAMBDA c : HasCol(got.df, c))
        IN
        /\ IF ~got.found
           THEN /\ result' = make_error("select", "dataset_not_found",
                                        dataset_id)
                /\ UNCHANGED regVars
           ELSE IF missing # <<>>
           THEN /\ uuidCount < limit
                /\ \E outcome \in SaveOutcomes :
                    register_dataset(got.mem, select(got.df, present),
                                     "selected", dataset_id, "select", outcome)
                /\ result' = make_error("select", "column_not_found",
                                        dataset_id)
           ELSE /\ uuidCount < limit
                /\ \E outcome \in SaveOutcomes :
                    register_dataset(got.mem, select(got.df, columns),
                                     "selected", dataset_id, "select", outcome)
                /\ result' = wrap_success("select", dataset_id, uuid4,
                                          NRows(got.df), NRows(got.df))
        /\ UNCHANGED <<vizVars, ledgerVars, qualityVars, sessionVars>>

\* wrangle_select_columns_tool around select_columns, while fewer than limit
\* handles exist
select_columns(limit) ==
    \E dataset_id \in Handles, columns \in ColumnLists :
        LET got == get_dataset(dataset_id)
            missing == SelectSeq(columns, LAMBDA c : ~HasCol(got.df, c))
        IN
        /\ IF ~got.found
           THEN /\ result' = make_error("select", "dataset_not_found",
                                        dataset_id)
                /\ UNCHANGED regVars
           ELSE IF missing # <<>>
           THEN /\ datasets' = got.mem
                /\ result' = make_error("select", "column_not_found",
                                        dataset_id)
                /\ UNCHANGED <<dbDatasets, parquetFiles, uuidCount,
                               registered>>
           ELSE /\ uuidCount < limit
                /\ \E outcome \in SaveOutcomes :
                    register_dataset(got.mem, select(got.df, columns),
                                     "selected", dataset_id, "select", outcome)
                /\ result' = wrap_success("select", dataset_id, uuid4,
                                          NRows(got.df), NRows(got.df))
        /\ UNCHANGED <<vizVars, ledgerVars, qualityVars, sessionVars>>

wrangle_select_columns_tool == select_columns(MaxDatasets)

(***************************************************************************)
(* Wrangle: mutate.                                                        *)
(***************************************************************************)
\* expressions: an ordered dict name -> "<src> + <add>"
ExpressionMaps ==
    {<<[name |-> "c", src |-> "a", add |-> 1]>>,
     <<[name |-> "a", src |-> "a", add |-> 1],
       [name |-> "d", src |-> "zz", add |-> 0]>>}

\* modified.eval(expr) raises
eval_raises(df, e) == ~HasCol(df, e.src)

\* modified[col_name] = modified.eval(expr)
assign(df, e) ==
    IF HasCol(df, e.name)
    THEN [df EXCEPT !.data =
            [i \in 1..NRows(df) |->
                [df.data[i] EXCEPT ![ColPos(df, e.name)] =
                    df.data[i][ColPos(df, e.src)] + e.add]]]
    ELSE [df EXCEPT !.columns = Append(df.columns, e.name),
                    !.data =
            [i \in 1..NRows(df) |->
                Append(df.data[i], df.data[i][ColPos(df, e.src)] + e.add)]]

\* the for loop of mutate_columns over expressions.items(), from position k:
\* raised or not, and the frame it worked on
RECURSIVE mutate_loop(_, _, _)
mutate_loop(modified, expressions, k) ==
    IF k > Len(expressions)
    THEN [raised |-> FALSE, df |-> modified]
    ELSE IF eval_raises(modified, expressions[k])
         THEN [raised |-> TRUE, df |-> modified]
         ELSE mutate_loop(assign(modified, expressions[k]), expressions, k + 1)

\* mutate_columns with "modified = df" in place of "modified = df.copy()": the
\* loop assigns into the registered frame
mutate_columns_in_place ==
    \E dataset_id \in Handles, expressions \in ExpressionMaps :
        LET got == get_dataset(dataset_id)
            done == mutate_loop(got.df, expressions, 1)
            aliased == [h \in DOMAIN got.mem |->
                          IF h = dataset_id THEN done.df ELSE got.mem[h]]
        IN
        /\ IF ~got.found
           THEN /\ result' = make_error("mutate", "dataset_not_found",
                                        dataset_id)
                /\ UNCHANGED regVars
           ELSE IF done.raised
           THEN /\ datasets' = aliased
                /\ result' = make_error("mutate", "expression_error",
                                        dataset_id)
                /\ UNCHANGED <<dbDatasets, parquetFiles, uuidCount,
                               registered>>
           ELSE /\ uuidCount < MaxDatasets
                /\ \E outcome \in SaveOutcomes :
                    register_dataset(aliased, done.df, "mutated", dataset_id,
                                     "mutate", outcome)
                /\ result' = wrap_success("mutate", dataset_id, uuid4,
                                          NRows(done.df), NRows(done.df))
        /\ UNCHANGED <<vizVars, ledgerVars, qualityVars, sessionVars>>

\* wrangle_mutate_columns_tool around mutate_columns
wrangle_mutate_columns_tool ==
    \E dataset_id \in Handles, expressions \in ExpressionMaps :
        LET got == get_dataset(dataset_id)
            \* modified = df.copy(): the loop assigns into the copy
            done == mutate_loop(got.df, expressions, 1)
        IN
        /\ IF ~got.found
           THEN /\ result' = make_error("mutate", "dataset_not_found",
                                        dataset_id)
                /\ UNCHANGED regVars
           ELSE IF done.raised
           THEN /\ datasets' = got.mem
                /\ result' = make_error("mutate", "expression_error",
                                        dataset_id)
                /\ UNCHANGED <<dbDatasets, parquetFiles, uuidCount,
                               registered>>
           ELSE /\ uuidCount < MaxDatasets
                /\ \E outcome \in SaveOutcomes :
                    register_dataset(got.mem, done.df, "mutated", dataset_id,
                                     "mutate", outcome)
                /\ result' = wrap_success("mutate", dataset_id, uuid4,
                                          NRows(done.df), NRows(done.df))
        /\ UNCHANGED <<vizVars, ledgerVars, qualityVars, sessionVars>>

(***************************************************************************)
(* Wrangle: remove_outliers.                                               *)
(***************************************************************************)
\* outlier_metadata: has_key is "columns_with_outliers" in outlier_metadata
\* (FALSE also stands for None and {}), cwo is that list
NoMetadata == [has_key |-> FALSE, cwo |-> <<>>]

NoOutliers == [has_key |-> TRUE, cwo |-> <<>>]

Bounds(column_name, lower_bound, upper_bound) ==
    [has_key |-> TRUE,
     cwo |-> <<[column_name |-> column_name, lower_bound |-> lower_bound,
                upper_bound |-> upper_bound]>>]

\* The calls made: outlier_metadata and columns (None is <<>>)
OutlierRequests ==
    {[outlier_metadata |-> NoMetadata,               columns |-> <<>>],
     [outlier_metadata |-> NoOutliers,               columns |-> <<>>],
     [outlier_metadata |-> Bounds("a", 1, 2),        columns |-> <<>>],
     [outlier_metadata |-> Bounds("a", 1, 2),        columns |-> <<"A">>],
     [outlier_metadata |-> Bounds("a", 1, 2),        columns |-> <<"b">>],
     [outlier_metadata |-> Bounds("zz", 1, 2),       columns |-> <<>>],
     [outlier_metadata |-> Bounds("a", NoneNum, 2),  columns |-> <<>>]}

\* str.lower on the column names in use
lower(c) == IF c = "A" THEN "a" ELSE c

\* columns_with_outliers restricted to the requested columns
requested(cwo, columns) ==
    IF columns # <<>>
    THEN SelectSeq(cwo, LAMBDA c :
            lower(c.column_name) \in {lower(x) : x \in Range(columns)})
    ELSE cwo

\* The entries of the for loop that contribute a filter condition
contributes(df, c) ==
    /\ HasCol(df, c.column_name)
    /\ (c.lower_bound # NoneNum \/ c.upper_bound # NoneNum)

\* f"{lower_bound:.4g}, {upper_bound:.4g}" raises TypeError on None
format_raises(c) == c.lower_bound = NoneNum \/ c.upper_bound = NoneNum

\* df.query(combined_condition): rows within the bounds of every column
within_bounds(df, conds) ==
    TakeRows(df, SelectSeq([i \in 1..NRows(df) |-> i],
        LAMBDA i : \A k \in 1..Len(conds) :
            LET v == df.data[i][ColPos(df, conds[k].column_name)] IN
            /\ (conds[k].lower_bound # NoneNum => v >= conds[k].lower_bound)
            /\ (conds[k].upper_bound # NoneNum => v <= conds[k].upper_bound)))

wrangle_remove_outliers_tool ==
    \E dataset_id \in Handles, request \in OutlierRequests :
        LET got == get_dataset(dataset_id)
            outlier_metadata == request.outlier_metadata
            columns_with_outliers ==
                requested(outlier_metadata.cwo, request.columns)
            filter_conditions ==
                SelectSeq(columns_with_outliers,
                          LAMBDA c : contributes(got.df, c))
            filtered == within_bounds(got.df, filter_conditions)
            \* the result for a dataset that exists, with the call it answers
            answer(envelope) == [envelope EXCEPT !.requested = request]
            unchanged ==
                answer(wrap_success("remove_outliers", dataset_id, dataset_id,
                                    NRows(got.df), NRows(got.df)))
        IN
        /\ IF ~got.found
           THEN /\ result' = make_error("remove_outliers", "dataset_not_found",
                                        dataset_id)
                /\ UNCHANGED regVars
           ELSE IF ~outlier_metadata.has_key
           THEN /\ datasets' = got.mem
                /\ result' = answer(make_error("remove_outliers",
                                               "invalid_parameter",
                                               dataset_id))
                /\ UNCHANGED <<dbDatasets, parquetFiles, uuidCount,
                               registered>>
           ELSE IF outlier_metadata.cwo = <<>> \/ columns_with_outliers = <<>>
           THEN \* "dataset unchanged": new_dataset_id is dataset_id
                /\ datasets' = got.mem
                /\ result' = unchanged
                /\ UNCHANGED <<dbDatasets, parquetFiles, uuidCount,
                               registered>>
           ELSE IF \E k \in 1..Len(filter_conditions) :
                        format_raises(filter_conditions[k])
           THEN /\ datasets' = got.mem
                /\ result' = answer(Raised("remove_outliers", "TypeError",
                                           dataset_id))
                /\ UNCHANGED <<dbDatasets, parquetFiles, uuidCount,
                               registered>>
           ELSE IF filter_conditions = <<>>
           THEN /\ datasets' = got.mem
                /\ result' = unchanged
                /\ UNCHANGED <<dbDatasets, parquetFiles, uuidCount,
                               registered>>
           ELSE /\ uuidCount < MaxDatasets
                /\ \E outcome \in SaveOutcomes :
                    register_dataset(got.mem, filtered, "outliers_removed",
                                     dataset_id, "removed outliers", outcome)
                /\ result' = answer(wrap_success("remove_outliers",
                                                 dataset_id, uuid4,
                                                 NRows(got.df),
                                                 NRows(filtered)))
        /\ UNCHANGED <<vizVars, ledgerVars, qualityVars, sessionVars>>

Next ==
    \/ ingest_csv_tool
    \/ GetDataset
    \/ clear_datasets
    \/ wrangle_filter_rows_tool
    \/ wrangle_select_columns_tool
    \/ wrangle_mutate_columns_tool
    \/ wrangle_remove_outliers_tool

Spec == Init /\ [][Next]_vars

(***************************************************************************)
(* Lineage chains: ingestion, a wrangle tool and the lineage tool.         *)
(***************************************************************************)
MaxChain == 3

chain_ingest == ingest_csv(MaxChain)

chain_select == select_columns(MaxChain)

NextLineage ==
    \/ chain_ingest
    \/ chain_select
    \/ get_dataset_lineage_tool

SpecLineage == Init /\ [][NextLineage]_vars


(***************************************************************************)
(* Visualization: VizSpec validation, the dataset access cache, the plot   *)
(* cache and its index file, and the render tool.                          *)
(***************************************************************************)
MaxVizDatasets == 1
MaxPlots == 2

\* ChartType: the values of the enum, as character sequences
HISTOGRAM == <<"h", "i", "s", "t", "o", "g", "r", "a", "m">>
BOX == <<"b", "o", "x">>
BOXPLOT == <<"b", "o", "x", "p", "l", "o", "t">>
SCATTER == <<"s", "c", "a", "t", "t", "e", "r">>
BAR == <<"b", "a", "r">>
LINE == <<"l", "i", "n", "e">>
PIE == <<"p", "i", "e">>

ChartType == {HISTOGRAM, BOX, BOXPLOT, SCATTER, BAR, LINE, PIE}

\* the mapping dict of VizSpec.normalize_chart_type
mapping ==
    {<<BOXPLOT, BOXPLOT>>,
     <<BOX, BOX>>,
     <<HISTOGRAM, HISTOGRAM>>,
     <<<<"h", "i", "s", "t">>, HISTOGRAM>>,
     <<SCATTER, SCATTER>>,
     <<SCATTER \o <<"p", "l", "o", "t">>, SCATTER>>,
     <<BAR, BAR>>,
     <<BAR \o <<"c", "h", "a", "r", "t">>, BAR>>,
     <<LINE, LINE>>,
     <<LINE \o <<"c", "h", "a", "r", "t">>, LINE>>,
     <<PIE, PIE>>,
     <<PIE \o <<"c", "h", "a", "r", "t">>, PIE>>}

\* mapping.get(k, default)
mapping_get(k, default) ==
    IF \E m \in mapping : m[1] = k
    THEN (CHOOSE m \in mapping : m[1] = k)[2]
    ELSE default

\* str.lower on the letters the requests use
lower_char(ch) ==
    IF ch = "B" THEN "b" ELSE IF ch = "S" THEN "s" ELSE ch

\* v.lower().replace("_", "").replace("-", "")
RECURSIVE lower_strip(_)
lower_strip(v) ==
    IF v = <<>>
    THEN <<>>
    ELSE IF Head(v) \in {"_", "-"}
         THEN lower_strip(Tail(v))
         ELSE <<lower_char(Head(v))>> \o lower_strip(Tail(v))

\* VizSpec.normalize_chart_type
normalize_chart_type(v) ==
    LET normalized == lower_strip(v)
        first == mapping_get(normalized, v)
    IN IF first \notin ChartType
       THEN mapping_get(lower_strip(v), first)
       ELSE first

\* the render requests: chart_type and y; x is "a", hue is None, bins is 10
RenderRequests ==
    {[chart_type |-> <<"h", "i", "s", "t">>, y |-> NoneStr],
     [chart_type |-> <<"B", "o", "x", "_", "p", "l", "o", "t">>,
      y |-> NoneStr],
     [chart_type |-> SCATTER, y |-> NoneStr],
     [chart_type |-> SCATTER, y |-> "b"],
     [chart_type |-> <<"h", "e", "a", "t", "m", "a", "p">>, y |-> NoneStr]}

\* get_dataset_cached: found, the frame, _CACHE and _DATASETS afterwards
get_dataset_cached(dataset_id) ==
    IF dataset_id \in DOMAIN cache
    THEN [found |-> TRUE, df |-> cache[dataset_id], cache |-> cache,
          mem |-> datasets]
    ELSE LET got == get_dataset(dataset_id) IN
         IF got.found
         THEN [found |-> TRUE, df |-> got.df,
               cache |-> [h \in DOMAIN cache \cup {dataset_id} |->
                            IF h = dataset_id THEN got.df ELSE cache[h]],
               mem |-> got.mem]
         ELSE [found |-> FALSE, df |-> NoFrame, cache |-> cache,
               mem |-> got.mem]

\* dataset_cache.clear_cache
clear_cache ==
    /\ cache' = <<>>
    /\ result' = wrap_success("clear_cache", NoId, NoId, 0, 0)
    /\ UNCHANGED <<ledgerVars, qualityVars, sessionVars>>
    /\ UNCHANGED <<regVars, plotCache, plotFiles, plotCacheFile, plotUuid,
                   savedArtifacts, produced>>

\* the chart branches of render_plot_from_spec: those that raise
plot_raises(df, chart_type, x, y) ==
    \/ chart_type \in {SCATTER, LINE} /\ y = NoneStr
    \/ ~HasCol(df, x)
    \/ /\ chart_type \in {BOX, BOXPLOT, SCATTER, BAR, LINE}
       /\ y # NoneStr
       /\ ~HasCol(df, y)

\* x or ""
or_empty(v) == IF v = NoneStr THEN "" ELSE v

\* _save_plot_cache: the serial key of a cache key, before the "|||" join
serial_key(key) ==
    <<key.dataset_id, key.chart_type, or_empty(key.x), or_empty(key.y),
      or_empty(key.hue), key.bins>>

\* _save_plot_cache: the contents written to plot_cache.json. Keys with one
\* serial key overwrite each other in dict order: the entry stored last, which
\* holds the file name drawn last, is the one written.
serializable(plot_cache) ==
    [sk \in {serial_key(key) : key \in DOMAIN plot_cache} |->
        LET same == {key \in DOMAIN plot_cache : serial_key(key) = sk}
        IN plot_cache[CHOOSE key \in same :
                        \A other \in same : plot_cache[other] <= plot_cache[key]]]

\* x or None
or_none(v) == IF v = "" THEN NoneStr ELSE v

\* _load_plot_cache: the cache key rebuilt from the parts of a serial key
loaded_key(parts) ==
    [dataset_id |-> parts[1], chart_type |-> parts[2], x |-> or_none(parts[3]),
     y |-> or_none(parts[4]), hue |-> or_none(parts[5]), bins |-> parts[6]]

\* _load_plot_cache: _PLOT_CACHE after reading plot_cache.json
load_plot_cache(raw) ==
    [key \in {loaded_key(parts) : parts \in DOMAIN raw} |->
        raw[CHOOSE parts \in DOMAIN raw : loaded_key(parts) = key]]

\* the fields of VizResult
VizResultFields == {"file_path", "chart_type", "dataset_id"}

\* the attributes of validated_result that eda_render_plot_tool reads
VizResultReads ==
    {"file_path", "dataset_id", "chart_type", "x", "y", "hue", "bins", "role"}

\* validated_result.<name> raises AttributeError for a name VizResult lacks
attribute_error == ~(VizResultReads \subseteq VizResultFields)

\* the envelope of eda_render_plot_tool
render_envelope(status, error_type, key, file_path, reused) ==
    [Envelope("render", status, error_type, key.dataset_id, NoId, 0, 0)
        EXCEPT !.key = key, !.file_path = file_path, !.reused = reused]

\* eda_render_plot_tool around render_plot_from_spec, for the given requests
\* and while fewer than limit plot files were written
render_plot(requests, limit) ==
    \E dataset_id \in Handles, request \in requests :
        LET y == request.y
            validated == normalize_chart_type(request.chart_type)
            key == [dataset_id |-> dataset_id, chart_type |-> validated,
                    x |-> "a", y |-> y, hue |-> NoneStr, bins |-> 10]
            cached == key \in DOMAIN plotCache
            existing_path == plotCache[key]
            popped == [k \in DOMAIN plotCache \ {key} |-> plotCache[k]]
            got == get_dataset_cached(dataset_id)
            file_path == plotUuid + 1
            stored == [k \in DOMAIN popped \cup {key} |->
                         IF k = key THEN file_path ELSE popped[k]]
        IN
        IF validated \notin ChartType
        THEN \* VizSpec(**spec) raises ValidationError
             /\ result' = render_envelope("error", "render_error", key, NoId,
                                          FALSE)
             /\ UNCHANGED <<ledgerVars, qualityVars, sessionVars>>
             /\ UNCHANGED <<regVars, cache, plotCache, plotFiles,
                            plotCacheFile, plotUuid, savedArtifacts, produced>>
        ELSE IF cached /\ existing_path \in plotFiles
        THEN \* reused: VizResult(**result), then validated_result.x
             /\ result' =
                 IF attribute_error
                 THEN render_envelope("error", "render_error", key, NoId,
                                      FALSE)
                 ELSE render_envelope("ok", "", key, existing_path, TRUE)
             /\ UNCHANGED <<ledgerVars, qualityVars, sessionVars>>
             /\ UNCHANGED <<regVars, cache, plotCache, plotFiles,
                            plotCacheFile, plotUuid, savedArtifacts, produced>>
        ELSE IF ~got.found
        THEN \* KeyError from get_dataset, raised again as ValueError
             /\ plotCache' = popped
             /\ result' = render_envelope("error", "render_error", key, NoId,
                                          FALSE)
             /\ UNCHANGED <<ledgerVars, qualityVars, sessionVars>>
             /\ UNCHANGED <<regVars, cache, plotFiles, plotCacheFile,
                            plotUuid, savedArtifacts, produced>>
        ELSE IF plot_raises(got.df, validated, "a", y)
        THEN /\ plotCache' = popped
             /\ cache' = got.cache
             /\ datasets' = got.mem
             /\ result' = render_envelope("error", "render_error", key, NoId,
                                          FALSE)
             /\ UNCHANGED <<ledgerVars, qualityVars, sessionVars>>
             /\ UNCHANGED <<dbDatasets, parquetFiles, uuidCount, registered,
                            plotFiles, plotCacheFile, plotUuid,
                            savedArtifacts, produced>>
        ELSE /\ plotUuid < limit
             /\ cache' = got.cache
             /\ datasets' = got.mem
             /\ plotUuid' = file_path
             /\ plotFiles' = plotFiles \cup {file_path}
             /\ plotCache' = stored
             /\ produced' = produced \cup {<<key, file_path>>}
             /\ \E written \in BOOLEAN :
                 plotCacheFile' = IF written THEN serializable(stored)
                                  ELSE plotCacheFile
             /\ \E artifact_saved \in BOOLEAN :
                 IF ~artifact_saved
                 THEN \* save_artifact raised: the Part itself is returned
                      /\ savedArtifacts' = savedArtifacts
                      /\ result' = render_envelope("part", "", key, NoId,
                                                   FALSE)
                 ELSE /\ savedArtifacts' = savedArtifacts \cup {file_path}
                      /\ result' =
                          IF attribute_error
                          THEN render_envelope("error", "render_error", key,
                                               NoId, FALSE)
                          ELSE render_envelope("ok", "", key, file_path,
                                               FALSE)
             /\ UNCHANGED <<ledgerVars, qualityVars, sessionVars>>
             /\ UNCHANGED <<dbDatasets, parquetFiles, uuidCount, registered>>

eda_render_plot_tool == render_plot(RenderRequests, MaxPlots)

\* a plot file is removed from PLOTS_DIR, so that os.path.isfile is false
remove_plot_file ==
    /\ \E path \in plotFiles : plotFiles' = plotFiles \ {path}
    /\ result' = wrap_success("remove_plot_file", NoId, NoId, 0, 0)
    /\ UNCHANGED <<ledgerVars, qualityVars, sessionVars>>
    /\ UNCHANGED <<regVars, cache, plotCache, plotCacheFile, plotUuid,
                   savedArtifacts, produced>>

viz_ingest == ingest_csv(MaxVizDatasets)

NextViz ==
    \/ viz_ingest
    \/ clear_datasets
    \/ clear_cache
    \/ eda_render_plot_tool
    \/ remove_plot_file

SpecViz == Init /\ [][NextViz]_vars

(***************************************************************************)
(* Process restart: the module-level state is rebuilt, the plot cache from *)
(* plot_cache.json.                                                        *)
(***************************************************************************)
MaxRestartPlots == 2

\* render requests for a histogram of "a": y absent, and y given as ""
RestartRequests ==
    {[chart_type |-> HISTOGRAM, y |-> NoneStr],
     [chart_type |-> HISTOGRAM, y |-> ""]}

\* the process ends and the modules are imported again: _DATASETS = {},
\* _CACHE = {}, _PLOT_CACHE = {} followed by _load_plot_cache()
restart ==
    /\ datasets' = <<>>
    /\ cache' = <<>>
    /\ plotCache' = load_plot_cache(plotCacheFile)
    /\ registered' = [h \in DOMAIN registered |->
                        [registered[h] EXCEPT !.cleared = TRUE]]
    /\ result' = wrap_success("restart", NoId, NoId, 0, 0)
    /\ UNCHANGED <<ledgerVars, qualityVars, sessionVars>>
    /\ UNCHANGED <<dbDatasets, parquetFiles, uuidCount, plotFiles,
                   plotCacheFile, plotUuid, savedArtifacts, produced>>

restart_ingest == ingest_csv(MaxVizDatasets)

restart_render == render_plot(RestartRequests, MaxRestartPlots)

NextRestart ==
    \/ restart_ingest
    \/ restart_render
    \/ remove_plot_file
    \/ restart

SpecRestart == Init /\ [][NextRestart]_vars

(***************************************************************************)
(* Spec resolution: eda_viz_spec_tool.                                     *)
(***************************************************************************)
BOX_PLOT == <<"b", "o", "x", "_", "p", "l", "o", "t">>

\* chart_type arguments of the resolve requests
ResolveChartTypes ==
    {BOX, BOXPLOT, BOX_PLOT, <<"B", "o", "x">>, <<"h", "i", "s", "t">>,
     SCATTER \o <<"_", "p", "l", "o", "t">>,
     <<"h", "e", "a", "t", "m", "a", "p">>}

\* x arguments of the resolve requests
ResolveColumns == {"a", "A", "zz"}

\* validate_column_exists raises ValueError
column_missing(column_name, df) ==
    /\ ~HasCol(df, column_name)
    /\ \A j \in 1..NCols(df) : lower(column_name) # lower(df.columns[j])

\* validate_column_exists: the exact name, else the first column that matches
\* without regard to case
validate_column_exists(column_name, df) ==
    IF HasCol(df, column_name)
    THEN column_name
    ELSE LET j == CHOOSE j \in 1..NCols(df) :
                    /\ lower(column_name) = lower(df.columns[j])
                    /\ \A i \in 1..(j - 1) :
                        lower(column_name) # lower(df.columns[i])
         IN df.columns[j]

\* the envelope of eda_viz_spec_tool
resolve_envelope(status, error_type, dataset_id, chart_type, spec) ==
    [Envelope("resolve", status, error_type, dataset_id, NoId, 0, 0) EXCEPT !.key = spec, !.requested = chart_type]

\* eda_viz_spec_tool: y and hue are None, bins is 10
eda_viz_spec_tool ==
    \E dataset_id \in Handles, chart_type \in ResolveChartTypes,
       x \in ResolveColumns :
        LET validated == normalize_chart_type(chart_type)
            got == get_dataset_cached(dataset_id)
            failed == resolve_envelope("error", "validation_error",
                                       dataset_id, chart_type, <<>>)
        IN
        /\ IF validated \notin ChartType
           THEN \* VizSpec(...) raises ValidationError
                /\ result' = failed
                /\ UNCHANGED <<datasets, cache>>
           ELSE IF ~got.found
           THEN /\ result' = failed
                /\ UNCHANGED <<datasets, cache>>
           ELSE /\ datasets' = got.mem
                /\ cache' = got.cache
                /\ result' =
                    IF column_missing(x, got.df)
                    THEN failed
                    ELSE resolve_envelope("ok", "", dataset_id, chart_type,
                            [dataset_id |-> dataset_id,
                             chart_type |-> validated,
                             x |-> validate_column_exists(x, got.df),
                             y |-> NoneStr, hue |-> NoneStr, bins |-> 10])
        /\ UNCHANGED <<ledgerVars, qualityVars, sessionVars>>
        /\ UNCHANGED <<dbDatasets, parquetFiles, uuidCount, registered,
                       plotCache, plotFiles, plotCacheFile, plotUuid,
                       savedArtifacts, produced>>

resolve_ingest == ingest_csv(MaxVizDatasets)

NextResolve ==
    \/ resolve_ingest
    \/ eda_viz_spec_tool
    \/ clear_datasets
    \/ clear_cache

SpecResolve == Init /\ [][NextResolve]_vars

(***************************************************************************)
(* The analysis run ledger (PersistentStore, memory_tools).  A dict is a   *)
(* function on its keys; an Optional value is a record that says whether   *)
(* it is None.  p-values are in thousandths.                               *)
(***************************************************************************)
MaxRuns == 2

RunIds == 1..MaxRuns

EmptyDict == [k \in {} |-> 0]

Some(value) == [is_none |-> FALSE, value |-> value]

NoneDict == [is_none |-> TRUE, value |-> EmptyDict]

NoneFloat == [is_none |-> TRUE, value |-> 0]

\* Python truth value of an Optional[Dict]: None and {} are false
truthy(optional_dict) ==
    ~optional_dict.is_none /\ DOMAIN optional_dict.value # {}

ReadinessScores ==
    {NoneDict, Some(EmptyDict), Some([overall |-> 70]),
     Some([overall |-> 85]), Some([components |-> 100])}

PValues ==
    {EmptyDict, [t_test |-> 50], [t_test |-> 10, chi_square |-> 30]}

AnalysisRun(run_id, readiness_score, p_values) ==
    [run_id          |-> run_id,
     readiness_score |-> readiness_score,
     p_values        |-> p_values]

\* the row save_run binds: the readiness column is NULL for a false score
run_to_row(run) ==
    [run_id             |-> run.run_id,
     structured_results |-> run.p_values,
     readiness_score    |-> IF truthy(run.readiness_score)
                            THEN run.readiness_score
                            ELSE NoneDict]

_row_to_run(row) ==
    AnalysisRun(row.run_id,
                IF truthy(row.readiness_score) THEN row.readiness_score
                ELSE NoneDict,
                row.structured_results)

\* INSERT OR IGNORE: the first row stored under a run_id stays
insert_or_ignore(table, run_id, row) ==
    IF run_id \in DOMAIN table THEN table
    ELSE [r \in DOMAIN table \cup {run_id} |->
            IF r = run_id THEN row ELSE table[r]]

\* INSERT OR REPLACE INTO analysis_runs, run_id being the primary key
insert_or_replace(table, run_id, row) ==
    [r \in DOMAIN table \cup {run_id} |->
        IF r = run_id THEN row ELSE table[r]]

ledger_envelope(op, status, error_type, data) ==
    [Envelope(op, status, error_type, NoId, NoId, 0, 0) EXCEPT !.data = data]

\* PersistentStore.save_run for a run the caller built
store_run(op, run) ==
    \E outcome \in SaveOutcomes :
        IF outcome = "raised"
        THEN /\ result' = ledger_envelope(op, "raised", "sqlite3.Error", run)
             /\ UNCHANGED <<runs, lastSave>>
        ELSE /\ runs' = insert_or_replace(runs, run.run_id, run_to_row(run))
             /\ lastSave' =
                 [r \in DOMAIN lastSave \cup {run.run_id} |->
                     IF r = run.run_id
                     THEN [run |-> run, resaved |-> r \in DOMAIN runs]
                     ELSE lastSave[r]]
             /\ result' = ledger_envelope(op, "ok", "", run)

\* a caller of save_run with the runs it may pass
save_with(op, run_ids, scores, p_values_set) ==
    /\ \E run_id \in run_ids, readiness_score \in scores,
          p_values \in p_values_set :
        store_run(op, AnalysisRun(run_id, readiness_score, p_values))
    /\ UNCHANGED <<regVars, vizVars, qualityVars, sessionVars>>

LedgerPValues == {[t_test |-> 50]}

save_run == save_with("save_run", RunIds, ReadinessScores, LedgerPValues)

\* memory_tools.save_analysis_run: a run with a newly generated run_id
save_analysis_run ==
    save_with("save_analysis_run", RunIds \ DOMAIN runs, ReadinessScores,
              LedgerPValues)

get_run(run_id) ==
    IF run_id \in DOMAIN runs
    THEN [found |-> TRUE, run |-> _row_to_run(runs[run_id])]
    ELSE [found |-> FALSE, run |-> AnalysisRun(run_id, NoneDict, EmptyDict)]

get_analysis_run_tool ==
    /\ \E run_id \in RunIds :
        LET got == get_run(run_id) IN
        result' = IF got.found
                  THEN ledger_envelope("get_run", "ok", "", got.run)
                  ELSE ledger_envelope("get_run", "error",
                                       "dataset_not_found", got.run)
    /\ UNCHANGED <<regVars, vizVars, ledgerVars, qualityVars, sessionVars>>

\* dict.get(key): NoneNum when the key is absent
dict_get(dict, key) == IF key \in DOMAIN dict THEN dict[key] ELSE NoneNum

\* dict.get(key, default)
dict_get_default(dict, key, default) ==
    IF key \in DOMAIN dict THEN dict[key] ELSE default

compare_runs(run_id_a, run_id_b) ==
    LET run_a == get_run(run_id_a).run
        run_b == get_run(run_id_b).run
        all_tests == DOMAIN run_a.p_values \cup DOMAIN run_b.p_values
        changed == {test \in all_tests :
                       \/ dict_get(run_a.p_values, test) # NoneNum
                       \/ dict_get(run_b.p_values, test) # NoneNum}
    IN
    [run_a |-> run_id_a,
     run_b |-> run_id_b,
     readiness_delta |->
        IF truthy(run_a.readiness_score) /\ truthy(run_b.readiness_score)
        THEN Some(dict_get_default(run_b.readiness_score.value, "overall", 0)
                  - dict_get_default(run_a.readiness_score.value, "overall", 0))
        ELSE NoneFloat,
     p_value_changes |->
        [test \in changed |->
            [run_a |-> dict_get(run_a.p_values, test),
             run_b |-> dict_get(run_b.p_values, test)]]]

compare_runs_tool ==
    /\ \E run_id_a \in RunIds, run_id_b \in RunIds :
        result' =
            IF get_run(run_id_a).found /\ get_run(run_id_b).found
            THEN ledger_envelope("compare_runs", "ok", "",
                                 compare_runs(run_id_a, run_id_b))
            ELSE ledger_envelope("compare_runs", "error",
                                 "dataset_not_found",
                                 [run_a |-> run_id_a, run_b |-> run_id_b])
    /\ UNCHANGED <<regVars, vizVars, ledgerVars, qualityVars, sessionVars>>

NextLedger ==
    \/ save_run
    \/ save_analysis_run
    \/ get_analysis_run_tool

SpecLedger == Init /\ [][NextLedger]_vars

\* runs that differ in their p-value maps as well, and their comparison
compare_save_run == save_with("save_run", RunIds, ReadinessScores, PValues)

NextCompare ==
    \/ compare_save_run
    \/ compare_runs_tool

SpecCompare == Init /\ [][NextCompare]_vars

(***************************************************************************)
(* The readiness score (data_quality_tools.compute_readiness_score).       *)
(* Fractions are in percent and scores in hundredths of a point, so the    *)
(* arithmetic is exact: round(x, 2) is the nearest hundredth.              *)
(***************************************************************************)
MaxColumns == 2

RowCounts == {0, 10}

DuplicatePcts == {0, 50, 100}

\* a DataQualityColumn: missing_pct, is_constant, and the outlier_count of
\* its numeric_summary (NoneNum when numeric_summary is None)
ColumnProfiles ==
    [missing_pct : {0, 45, 100}, is_constant : BOOLEAN,
     outlier_count : {NoneNum, 0, 3}]

ColumnLists0 == UNION {[1..n -> ColumnProfiles] : n \in 0..MaxColumns}

RECURSIVE sum(_)
sum(values) ==
    IF values = <<>> THEN 0 ELSE Head(values) + sum(Tail(values))

\* round(num / den): the nearest integer, a tie going to the even one
round(num, den) ==
    LET q == num \div den
        r == num % den
    IN IF 2 * r < den THEN q
       ELSE IF 2 * r > den THEN q + 1
       ELSE IF q % 2 = 0 THEN q ELSE q + 1

max(a, b) == IF a >= b THEN a ELSE b

min(a, b) == IF a <= b THEN a ELSE b

\* round(100 - penalty, 2) without the clamp at 0
component_unclamped(num, den) == round(num, den)

\* round(max(0, 100 - penalty), 2), the score being num / den hundredths
component(num, den) == round(max(0, num), den)

compute_readiness_score(n_rows, duplicate_pct, columns) ==
    IF n_rows <= 0
    THEN [overall |-> 0, components |-> EmptyDict,
          notes |-> <<"Empty dataset">>]
    ELSE
    LET total_cols == IF Len(columns) = 0 THEN 1 ELSE Len(columns)
        missing_sum == sum([i \in DOMAIN columns |-> columns[i].missing_pct])
        missing_len == max(1, Len(columns))
        constant_flags ==
            Cardinality({i \in DOMAIN columns : columns[i].is_constant})
        high_missing_flags ==
            Cardinality({i \in DOMAIN columns : columns[i].missing_pct > 40})
        numeric == SelectSeq(columns, LAMBDA c : c.outlier_count # NoneNum)
        outlier_counts ==
            sum([i \in DOMAIN numeric |-> numeric[i].outlier_count])
        numeric_value_counts == outlier_counts + Len(numeric)
        outlier_den == max(1, numeric_value_counts)
        components ==
            [missingness |->
                component(10000 * missing_len - 120 * missing_sum,
                          missing_len),
             duplicates |-> component(10000 - 150 * duplicate_pct, 1),
             constants |->
                component(10000 * total_cols - 20000 * constant_flags,
                          total_cols),
             high_missing_columns |->
                component(10000 * total_cols - 25000 * high_missing_flags,
                          total_cols),
             outliers |->
                component(10000 * outlier_den - 8000 * outlier_counts,
                          outlier_den)]
        total == components.missingness + components.duplicates
                 + components.constants + components.high_missing_columns
                 + components.outliers
        notes ==
            (IF missing_sum > 30 * missing_len
             THEN <<"High average missingness">> ELSE <<>>)
            \o (IF duplicate_pct > 5
                THEN <<"Notable duplicate rows">> ELSE <<>>)
            \o (IF 10 * constant_flags > total_cols
                THEN <<"Several constant columns">> ELSE <<>>)
            \o (IF 5 * high_missing_flags > total_cols
                THEN <<"Multiple columns with >40% missing">> ELSE <<>>)
            \o (IF 100 * outlier_counts > 15 * outlier_den
                THEN <<"High outlier density">> ELSE <<>>)
    IN
    [overall |-> max(0, min(10000, round(total, 5))),
     components |-> components,
     notes |-> notes]

\* what data_quality_tool passes for the dataset it profiled
Profiles ==
    [n_rows : RowCounts, duplicate_pct : DuplicatePcts, columns : ColumnLists0]

\* data_quality_tool's call of compute_readiness_score
readiness_score ==
    /\ result' = ledger_envelope("readiness", "ok", "",
                    [n_rows |-> profile.n_rows,
                     duplicate_pct |-> profile.duplicate_pct,
                     columns |-> profile.columns,
                     readiness_score |->
                        compute_readiness_score(profile.n_rows,
                                                profile.duplicate_pct,
                                                profile.columns)])
    /\ UNCHANGED <<regVars, vizVars, ledgerVars, qualityVars, sessionVars>>

InitReadiness == InitStores /\ profile \in Profiles

NextReadiness == readiness_score

SpecReadiness == InitReadiness /\ [][NextReadiness]_vars

(***************************************************************************)
(* Outlier detection (data_quality_tools._numeric_summary).  A series is a *)
(* sequence of integers; quartiles are kept times 4 and the z-score test   *)
(* is squared, so the comparisons are exact.                               *)
(***************************************************************************)
MaxGroup == 20

GroupSizes == {0, 1, 2, MaxGroup \div 2, MaxGroup}

ExtremeValues == {0, 15, 39, 41, 100}

\* a column: copies of -10, copies of 10, and one more value
series_of(n_low, n_high, extreme) ==
    [i \in 1..(n_low + n_high + 1) |->
        IF i <= n_low THEN -10
        ELSE IF i <= n_low + n_high THEN 10 ELSE extreme]

SeriesInputs ==
    {series_of(n_low, n_high, extreme) :
        n_low \in GroupSizes, n_high \in GroupSizes, extreme \in ExtremeValues}

OutlierMethods == {"iqr", "zscore", "both"}

\* the value at position k (from 0) of the sorted series
kth(series, k) ==
    CHOOSE v \in Range(series) :
        /\ Cardinality({i \in DOMAIN series : series[i] < v}) <= k
        /\ k < Cardinality({i \in DOMAIN series : series[i] <= v})

\* 4 * series.quantile(quarter / 4), with linear interpolation
quantile4(series, quarter) ==
    LET pos == quarter * (Len(series) - 1)
        k == pos \div 4
        r == pos % 4
    IN IF r = 0 THEN 4 * kth(series, k)
       ELSE 4 * kth(series, k) + r * (kth(series, k + 1) - kth(series, k))

\* (series < q1 - 1.5 * iqr) | (series > q3 + 1.5 * iqr)
iqr_outliers_mask(series) ==
    LET q1 == quantile4(series, 1)
        q3 == quantile4(series, 3)
        iqr == q3 - q1
    IN {i \in DOMAIN series :
            \/ 8 * series[i] < 2 * q1 - 3 * iqr
            \/ 8 * series[i] > 2 * q3 + 3 * iqr}

\* np.abs((series - mean) / std) > 3, when std is a number above 0
zscore_outliers_mask(series) ==
    LET n == Len(series)
        total == sum(series)
        squares == sum([i \in DOMAIN series |-> series[i] * series[i]])
        \* n * (n - 1) * variance
        spread == n * squares - total * total
    IN IF n < 2 \/ spread = 0 THEN {}
       ELSE {i \in DOMAIN series :
                (n * series[i] - total) * (n * series[i] - total) * (n - 1)
                    > 9 * n * spread}

\* "both" as the values that both methods flag
outliers_mask_and(outlier_method, iqr_mask, zscore_mask) ==
    IF outlier_method = "both" THEN iqr_mask \cap zscore_mask
    ELSE IF outlier_method = "zscore" THEN zscore_mask
    ELSE iqr_mask

\* the mask _numeric_summary keeps for its method
outliers_mask(outlier_method, iqr_mask, zscore_mask) ==
    IF outlier_method = "both" THEN iqr_mask \cup zscore_mask
    ELSE IF outlier_method = "zscore" THEN zscore_mask
    ELSE iqr_mask

_numeric_summary(series, outlier_method) ==
    LET iqr_mask == IF series # <<>> /\ outlier_method \in {"iqr", "both"}
                    THEN iqr_outliers_mask(series) ELSE {}
        zscore_mask == IF outlier_method \in {"zscore", "both"}
                       THEN zscore_outliers_mask(series) ELSE {}
        mask == outliers_mask(outlier_method, iqr_mask, zscore_mask)
    IN [outlier_method |-> outlier_method,
        outlier_count  |-> Cardinality(mask),
        flagged        |-> mask]

\* data_quality_tool's call of _numeric_summary for the column it holds
numeric_summary ==
    /\ \E outlier_method \in OutlierMethods :
        result' = ledger_envelope("numeric_summary", "ok", "",
                    [series |-> profile.series,
                     numeric_summary |->
                        _numeric_summary(profile.series, outlier_method)])
    /\ UNCHANGED <<regVars, vizVars, ledgerVars, qualityVars, sessionVars>>

InitOutliers == InitStores /\ profile \in {[series |-> s] : s \in SeriesInputs}

NextOutliers == numeric_summary

SpecOutliers == InitOutliers /\ [][NextOutliers]_vars

(***************************************************************************)
(* Statistical inference (eda_inference_tools.py).  A probability and a    *)
(* significance level are counted in hundredths.  A cell at or above Text  *)
(* is a string; a column holding one has the object dtype.                 *)
(***************************************************************************)
MaxSampleDatasets == 1

Text == 1000

GroupA == Text + 1

GroupB == Text + 2

GroupC == Text + 3

Word == Text + 9

\* The files read for the tests: value v, group g, empty column m, text s
SampleFrame(rows) ==
    [columns |-> <<"v", "g", "m", "s">>,
     index   |-> RangeIndex(Len(rows)),
     data    |-> [i \in 1..Len(rows) |->
                    <<rows[i][1], rows[i][2], NoneNum, Word>>]]

SampleFrames ==
    {SampleFrame(<< <<1, GroupA>>, <<3, GroupA>>, <<2, GroupB>>,
                    <<5, GroupB>>, <<NoneNum, GroupB>> >>),
     SampleFrame(<< <<1, GroupA>>, <<3, GroupA>>, <<2, GroupB>>,
                    <<2, GroupB>> >>),
     SampleFrame(<< <<5, GroupA>>, <<1, GroupB>>, <<3, GroupB>> >>),
     SampleFrame(<< <<4, GroupA>>, <<4, GroupA>>, <<1, GroupB>>,
                    <<1, GroupB>> >>),
     SampleFrame(<< <<2, GroupA>>, <<2, GroupA>>, <<2, GroupB>>,
                    <<2, GroupB>> >>),
     SampleFrame(<< <<2, GroupA>>, <<3, GroupB>> >>)}

\* ingest_csv_tool on one of the given files, while fewer than limit handles
ingest_sample_csv(frames, limit) ==
    /\ uuidCount < limit
    /\ \E df \in frames, outcome \in SaveOutcomes :
        /\ register_dataset(datasets, df, "unknown", NoId, NoneStr, outcome)
        /\ result' = wrap_success("ingest", NoId, uuid4, 0, NRows(df))
    /\ UNCHANGED <<vizVars, ledgerVars, qualityVars, sessionVars>>

\* df[column]
column_values(df, column) ==
    [i \in 1..NRows(df) |-> df.data[i][ColPos(df, column)]]

\* pd.api.types.is_numeric_dtype of a column
is_numeric_dtype(values) == \A i \in DOMAIN values : values[i] < Text

notna(v) == v # NoneNum

\* Series.dropna
dropna(values) == SelectSeq(values, notna)

\* df_ab[df_ab[group_col] == group][column].dropna()
group_values(df, column, group_col, group) ==
    LET rows == SelectSeq([i \in 1..NRows(df) |-> i],
                          LAMBDA i : df.data[i][ColPos(df, group_col)] = group)
    IN  dropna([k \in 1..Len(rows) |-> df.data[rows[k]][ColPos(df, column)]])

Alternatives == {"two-sided", "less", "greater"}

TestTypes == {"t", "z"}

\* the result of an inference tool, with the arguments it was called with
inference_envelope(op, status, error_type, dataset_id, request, payload) ==
    [Envelope(op, status, error_type, dataset_id, NoId, 0, 0)
        EXCEPT !.requested = request, !.data = payload]

\* run_one_sample_test on a frame: the exception it raises or its payload
run_one_sample_test(df, column, test_type, alternative, alpha) ==
    IF ~HasCol(df, column)
    THEN [raised |-> TRUE, payload |-> <<>>]
    ELSE LET x == dropna(column_values(df, column)) IN
         IF ~is_numeric_dtype(column_values(df, column))
         THEN [raised |-> TRUE, payload |-> <<>>]
         ELSE IF test_type \notin TestTypes
         THEN [raised |-> TRUE, payload |-> <<>>]
         ELSE IF alternative \notin Alternatives
         THEN [raised |-> TRUE, payload |-> <<>>]
         ELSE [raised  |-> FALSE,
               payload |-> [n                |-> Len(x),
                            alpha            |-> alpha,
                            confidence_level |-> 100 - alpha,
                            alternative      |-> alternative]]

abs(v) == IF v < 0 THEN -v ELSE v

sum_of_squares(values) == sum([i \in DOMAIN values |-> values[i] * values[i]])

\* n * (n - 1) * Series.var(ddof=1) of a sample: n * sum(x^2) - sum(x)^2
scaled_variance(values) ==
    Len(values) * sum_of_squares(values) - sum(values) * sum(values)

\* A float that is not a number
NaN == [nan |-> TRUE, num |-> 0, den |-> 1, se2 |-> <<0, 1>>]

\* diff / se_diff, kept exact: (num / den) / sqrt(se2[1] / se2[2]).  An
\* undefined standard deviation or 0 / 0 is nan; a zero se2 under a nonzero
\* num is an infinity of the sign of num.
statistic(x, y) ==
    LET n_a == Len(x)
        n_b == Len(y)
        num == sum(x) * n_b - sum(y) * n_a
        se2_num == scaled_variance(x) * n_b * n_b * (n_b - 1)
                     + scaled_variance(y) * n_a * n_a * (n_a - 1)
        se2_den == n_a * n_a * (n_a - 1) * n_b * n_b * (n_b - 1)
    IN  IF n_a = 1 \/ n_b = 1 \/ (se2_num = 0 /\ num = 0)
        THEN NaN
        ELSE [nan |-> FALSE, num |-> num, den |-> n_a * n_b,
              se2 |-> <<se2_num, se2_den>>]

\* mean_a - mean_b as a fraction
mean_diff(x, y) ==
    [num |-> sum(x) * Len(y) - sum(y) * Len(x), den |-> Len(x) * Len(y)]

\* abs(z_stat)
abs_stat(stat) == [stat EXCEPT !.num = abs(stat.num)]

\* A probability as the term that computed it: fn applied to a statistic,
\* with the samples behind the degrees of freedom of a t distribution
Probability(fn, stat, dof) == [fn |-> fn, stat |-> stat, dof |-> dof]

\* the Welch degrees of freedom depend on each group's variance and size
welch_dof(x, y) ==
    {<<scaled_variance(x), Len(x)>>, <<scaled_variance(y), Len(y)>>}

\* stats.ttest_ind(x, y, equal_var=False).pvalue
ttest_ind_pvalue(x, y) ==
    Probability("t_two_sided", abs_stat(statistic(x, y)), welch_dof(x, y))

\* p_val of the t test with "less" reading the sign as "greater" does
p_value_t_same_sign(alternative, t_stat, p_two) ==
    IF alternative = "two-sided"
    THEN p_two
    ELSE IF alternative = "greater"
    THEN IF ~t_stat.nan /\ t_stat.num > 0
         THEN [p_two EXCEPT !.fn = "half_t_two_sided"]
         ELSE [p_two EXCEPT !.fn = "one_minus_half_t_two_sided"]
    ELSE IF ~t_stat.nan /\ t_stat.num > 0
         THEN [p_two EXCEPT !.fn = "half_t_two_sided"]
         ELSE [p_two EXCEPT !.fn = "one_minus_half_t_two_sided"]

\* p_val of the t test from the two-sided p-value and the sign of t_stat
p_value_t(alternative, t_stat, p_two) ==
    IF alternative = "two-sided"
    THEN p_two
    ELSE IF alternative = "greater"
    THEN IF ~t_stat.nan /\ t_stat.num > 0
         THEN [p_two EXCEPT !.fn = "half_t_two_sided"]
         ELSE [p_two EXCEPT !.fn = "one_minus_half_t_two_sided"]
    ELSE IF ~t_stat.nan /\ t_stat.num < 0
         THEN [p_two EXCEPT !.fn = "half_t_two_sided"]
         ELSE [p_two EXCEPT !.fn = "one_minus_half_t_two_sided"]

\* p_val of the z test
p_value_z(alternative, z_stat) ==
    IF alternative = "two-sided"
    THEN Probability("two_times_one_minus_cdf", abs_stat(z_stat), {})
    ELSE IF alternative = "greater"
    THEN Probability("one_minus_cdf", z_stat, {})
    ELSE Probability("cdf", z_stat, {})

\* run_two_sample_test on a frame: the exception it raises or its payload
run_two_sample_test(df, column, group_col, group_a, group_b, test_type, alternative, alpha) ==
    IF ~HasCol(df, column) \/ ~HasCol(df, group_col)
    THEN [raised |-> TRUE, payload |-> <<>>]
    ELSE LET x == group_values(df, column, group_col, group_a)
             y == group_values(df, column, group_col, group_b)
             n_a == Len(x)
             n_b == Len(y)
             stat == statistic(x, y)
         IN
         IF n_a = 0 \/ n_b = 0
         THEN [raised |-> TRUE, payload |-> <<>>]
         ELSE IF ~is_numeric_dtype(column_values(df, column))
         THEN [raised |-> TRUE, payload |-> <<>>]
         \* pooled_var divides by n_a + n_b - 2
         ELSE IF n_a + n_b - 2 = 0
         THEN [raised |-> TRUE, payload |-> <<>>]
         ELSE IF test_type \notin TestTypes
         THEN [raised |-> TRUE, payload |-> <<>>]
         ELSE IF alternative \notin Alternatives
         THEN [raised |-> TRUE, payload |-> <<>>]
         \* df_den divides by n_a - 1 and by n_b - 1
         ELSE IF test_type = "t" /\ (n_a - 1 = 0 \/ n_b - 1 = 0)
         THEN [raised |-> TRUE, payload |-> <<>>]
         ELSE [raised  |-> FALSE,
               payload |-> [n_a              |-> n_a,
                            n_b              |-> n_b,
                            mean_diff        |-> mean_diff(x, y),
                            statistic        |-> stat,
                            p_value          |->
                                IF test_type = "t"
                                THEN p_value_t(alternative, stat,
                                               ttest_ind_pvalue(x, y))
                                ELSE p_value_z(alternative, stat),
                            alpha            |-> alpha,
                            confidence_level |-> 100 - alpha,
                            alternative      |-> alternative]]

\* run_binomial_test; proportion_ci accepts a confidence level in [0, 1]
run_binomial_test(successes, n, p0, alternative, alpha) ==
    IF n <= 0
    THEN [raised |-> TRUE, payload |-> <<>>]
    ELSE IF successes < 0 \/ successes > n
    THEN [raised |-> TRUE, payload |-> <<>>]
    ELSE IF ~(0 < p0 /\ p0 < 100)
    THEN [raised |-> TRUE, payload |-> <<>>]
    ELSE IF alternative \notin Alternatives
    THEN [raised |-> TRUE, payload |-> <<>>]
    ELSE IF 100 - alpha < 0 \/ 100 - alpha > 100
    THEN [raised |-> TRUE, payload |-> <<>>]
    ELSE [raised  |-> FALSE,
          payload |-> [successes        |-> successes,
                       n                |-> n,
                       alpha            |-> alpha,
                       confidence_level |-> 100 - alpha,
                       alternative      |-> alternative]]

\* build_clt_sampling_summary on a frame
build_clt_sampling_summary(df, column, sample_size, n_samples) ==
    IF ~HasCol(df, column)
    THEN [raised |-> TRUE, payload |-> <<>>]
    ELSE LET series == dropna(column_values(df, column)) IN
         IF ~is_numeric_dtype(column_values(df, column))
         THEN [raised |-> TRUE, payload |-> <<>>]
         ELSE IF sample_size <= 0 \/ n_samples <= 0
         THEN [raised |-> TRUE, payload |-> <<>>]
         ELSE IF Len(series) = 0
         THEN [raised |-> TRUE, payload |-> <<>>]
         ELSE [raised  |-> FALSE,
               payload |-> [population_size |-> Len(series),
                            sample_size     |-> sample_size,
                            n_samples       |-> n_samples]]

\* the answer of a tool wrapper to what its helper returned or raised
inference_answer(op, dataset_id, request, found, outcome) ==
    IF ~found
    THEN inference_envelope(op, "error", "dataset_not_found", dataset_id,
                            request, <<>>)
    ELSE IF outcome.raised
    THEN inference_envelope(op, "error", "inference_error", dataset_id,
                            request, <<>>)
    ELSE inference_envelope(op, "ok", "", dataset_id, request,
                            outcome.payload)

SampleColumns == {"v", "m", "s", "zz"}

AlphaValues == {5, 0, 150}

eda_one_sample_test_tool ==
    \E dataset_id \in Handles, column \in SampleColumns,
       test_type \in TestTypes \cup {"f"},
       alternative \in {"two-sided", "not-equal"},
       alpha \in AlphaValues :
        LET got == get_dataset(dataset_id)
            request == [column |-> column, test_type |-> test_type,
                        alternative |-> alternative, alpha |-> alpha]
        IN
        /\ datasets' = got.mem
        /\ result' = inference_answer("one_sample_test", dataset_id, request,
                        got.found,
                        run_one_sample_test(got.df, column, test_type,
                                            alternative, alpha))
        /\ UNCHANGED <<dbDatasets, parquetFiles, uuidCount, registered>>
        /\ UNCHANGED <<vizVars, ledgerVars, qualityVars, sessionVars>>

\* eda_two_sample_test_tool with its arguments drawn from the given sets
two_sample_test(columns, test_types, alternatives, alphas) ==
    \E dataset_id \in Handles, column \in columns,
       group_a \in {GroupA, GroupB, GroupC}, group_b \in {GroupA, GroupB},
       test_type \in test_types, alternative \in alternatives,
       alpha \in alphas :
        LET got == get_dataset(dataset_id)
            request == [column |-> column, group_col |-> "g",
                        group_a |-> group_a, group_b |-> group_b,
                        test_type |-> test_type,
                        alternative |-> alternative, alpha |-> alpha]
        IN
        /\ datasets' = got.mem
        /\ result' = inference_answer("two_sample_test", dataset_id, request,
                        got.found,
                        run_two_sample_test(got.df, column, "g", group_a,
                                            group_b, test_type, alternative,
                                            alpha))
        /\ UNCHANGED <<dbDatasets, parquetFiles, uuidCount, registered>>
        /\ UNCHANGED <<vizVars, ledgerVars, qualityVars, sessionVars>>

eda_two_sample_test_tool ==
    two_sample_test({"v", "m", "s"}, {"t", "f"}, {"two-sided", "not-equal"},
                    {5, 150})

eda_binomial_test_tool ==
    \E successes \in {-1, 2, 3}, n \in {0, 2}, p0 \in {50, 100},
       alternative \in {"two-sided", "not-equal"}, alpha \in AlphaValues :
        LET request == [successes |-> successes, n |-> n, p0 |-> p0,
                        alternative |-> alternative, alpha |-> alpha]
        IN
        /\ result' = inference_answer("binomial_test", NoId, request, TRUE,
                        run_binomial_test(successes, n, p0, alternative,
                                          alpha))
        /\ UNCHANGED <<regVars, vizVars, ledgerVars, qualityVars, sessionVars>>

eda_clt_sampling_tool ==
    \E dataset_id \in Handles, column \in SampleColumns,
       sample_size \in {0, 30}, n_samples \in {0, 1000} :
        LET got == get_dataset(dataset_id)
            request == [column |-> column, sample_size |-> sample_size,
                        n_samples |-> n_samples]
        IN
        /\ datasets' = got.mem
        /\ result' = inference_answer("clt_sampling", dataset_id, request,
                        got.found,
                        build_clt_sampling_summary(got.df, column,
                                                   sample_size, n_samples))
        /\ UNCHANGED <<dbDatasets, parquetFiles, uuidCount, registered>>
        /\ UNCHANGED <<vizVars, ledgerVars, qualityVars, sessionVars>>

\* a file with missing values and a file with groups of one row
InferenceFrames ==
    {df \in SampleFrames : NRows(df) \in {2, 5}}

inference_ingest == ingest_sample_csv(InferenceFrames, MaxSampleDatasets)

NextInference ==
    \/ inference_ingest
    \/ eda_one_sample_test_tool
    \/ eda_two_sample_test_tool
    \/ eda_binomial_test_tool
    \/ eda_clt_sampling_tool

SpecInference == Init /\ [][NextInference]_vars

\* The two-sample test on every sample file, for both tests and the three
\* alternatives
two_sample_ingest == ingest_sample_csv(SampleFrames, MaxSampleDatasets)

two_sample_compare == two_sample_test({"v"}, TestTypes, Alternatives, {5})

NextTwoSample ==
    \/ two_sample_ingest
    \/ two_sample_compare

SpecTwoSample == Init /\ [][NextTwoSample]_vars

(***************************************************************************)
(* Best-effort persistence: the run logged after the summary step and the  *)
(* user preferences (summary_agent.py, memory_tools.py).                   *)
(***************************************************************************)
\* dict.update(other)
dict_update(dict, other) ==
    [k \in DOMAIN dict \cup DOMAIN other |->
        IF k \in DOMAIN other THEN other[k] ELSE dict[k]]

WritingStyle == {"executive", "technical"}

PlotDensity == {"minimal", "comprehensive"}

UserPreferences(user_id, writing_style, default_alpha, plot_density, auto_quality_check) ==
    [user_id            |-> user_id,
     writing_style      |-> writing_style,
     default_alpha      |-> default_alpha,
     plot_density       |-> plot_density,
     auto_quality_check |-> auto_quality_check]

\* auto_save_analysis_run: the after-agent callback of the summary agent;
\* whatever save_analysis_run raises is dropped
auto_save_analysis_run(score) ==
    \E run_id \in RunIds \ DOMAIN runs, outcome \in SaveOutcomes :
        LET run == AnalysisRun(run_id, score, EmptyDict) IN
        IF outcome = "raised"
        THEN UNCHANGED <<runs, lastSave>>
        ELSE /\ runs' = insert_or_replace(runs, run.run_id, run_to_row(run))
             /\ lastSave' =
                 [r \in DOMAIN lastSave \cup {run.run_id} |->
                     IF r = run.run_id
                     THEN [run |-> run, resaved |-> r \in DOMAIN runs]
                     ELSE lastSave[r]]

\* The summary step: the agent writes its report under output_key, then the
\* callback logs the run
summary_agent ==
    /\ \E final_summary \in {"report", "short report"},
          score \in {NoneDict, Some([overall |-> 85])} :
        /\ state' = dict_update(state, [final_summary |-> final_summary])
        /\ auto_save_analysis_run(score)
        /\ result' = ledger_envelope("summary", "ok", "",
                                     [final_summary |-> final_summary])
    /\ UNCHANGED <<regVars, vizVars, qualityVars, userPreferences, renders,
                   toolContexts, lineageWalk>>

\* the preferences as the tools copy them into the session state
user_state(prefs) ==
    ("user:writing_style" :> prefs.writing_style)
    @@ ("user:default_alpha" :> prefs.default_alpha)
    @@ ("user:plot_density" :> prefs.plot_density)
    @@ ("user:auto_quality_check" :> prefs.auto_quality_check)

\* state.get("user:id", "default")
session_user_id ==
    IF "user:id" \in DOMAIN state THEN state["user:id"] ELSE "default"

\* save_preferences_tool; default_alpha is counted in thousandths
save_preferences_tool ==
    /\ \E writing_style \in WritingStyle \cup {"casual"},
          default_alpha \in {50, 900},
          plot_density \in PlotDensity \cup {"dense"},
          auto_quality_check \in BOOLEAN,
          outcome \in SaveOutcomes :
        LET prefs == UserPreferences(session_user_id, writing_style,
                                     default_alpha, plot_density,
                                     auto_quality_check)
        IN
        IF writing_style \notin WritingStyle
           \/ plot_density \notin PlotDensity
           \/ ~(1 <= default_alpha /\ default_alpha <= 500)
        THEN /\ result' = [ledger_envelope("save_preferences", "error",
                                           "invalid_parameter", <<>>)
                             EXCEPT !.requested = prefs]
             /\ UNCHANGED <<userPreferences, state>>
        ELSE IF outcome = "raised"
        THEN /\ result' = [ledger_envelope("save_preferences", "raised",
                                           "sqlite3.Error", <<>>)
                             EXCEPT !.requested = prefs]
             /\ UNCHANGED <<userPreferences, state>>
        ELSE /\ userPreferences' =
                 [u \in DOMAIN userPreferences \cup {prefs.user_id} |->
                     IF u = prefs.user_id THEN prefs ELSE userPreferences[u]]
             /\ state' = dict_update(state, user_state(prefs))
             /\ result' = [ledger_envelope("save_preferences", "ok", "",
                                           prefs)
                             EXCEPT !.requested = prefs]
    /\ UNCHANGED <<regVars, vizVars, ledgerVars, qualityVars, renders,
                   toolContexts, lineageWalk>>

\* PersistentStore.get_preferences: the stored row or the defaults
get_preferences(user_id) ==
    IF user_id \in DOMAIN userPreferences
    THEN userPreferences[user_id]
    ELSE UserPreferences(user_id, "technical", 50, "comprehensive", TRUE)

load_preferences_tool ==
    /\ state' = dict_update(state, user_state(get_preferences(session_user_id)))
    /\ result' = ledger_envelope("load_preferences", "ok", "",
                                 get_preferences(session_user_id))
    /\ UNCHANGED <<regVars, vizVars, ledgerVars, qualityVars,
                   userPreferences, renders, toolContexts, lineageWalk>>

NextBestEffort ==
    \/ summary_agent
    \/ save_preferences_tool
    \/ load_preferences_tool

SpecBestEffort == Init /\ [][NextBestEffort]_vars

(***************************************************************************)
(* Concurrent callers of render_plot_from_spec.  Nothing in the function   *)
(* holds a lock, so a caller can be suspended between its look-up in       *)
(* _PLOT_CACHE, the drawing of the figure and the store into _PLOT_CACHE.  *)
(***************************************************************************)
MaxRacePlots == 2

Callers == {1, 2}

\* the cache keys of the concurrent calls: x is "a", hue is None, bins is 10
RaceKeys ==
    {[dataset_id |-> dataset_id, chart_type |-> chart_type, x |-> "a",
      y |-> NoneStr, hue |-> NoneStr, bins |-> 10] :
        dataset_id \in Handles, chart_type \in {HISTOGRAM, BOX}}

\* a caller that is not inside render_plot_from_spec
outside(caller) ==
    IF caller \in DOMAIN renders THEN renders[caller].pc = "returned"
    ELSE TRUE

\* the position and the locals of one caller
at(caller, pc, key, status, file_path, reused) ==
    [c \in DOMAIN renders \cup {caller} |->
        IF c = caller
        THEN [pc |-> pc, key |-> key, status |-> status,
              file_path |-> file_path, reused |-> reused]
        ELSE renders[c]]

\* render_plot_from_spec up to the look-up of cache_key in _PLOT_CACHE
render_lookup(caller) ==
    /\ outside(caller)
    /\ \E key \in RaceKeys :
        IF key \in DOMAIN plotCache /\ plotCache[key] \in plotFiles
        THEN /\ renders' = at(caller, "returned", key, "ok", plotCache[key],
                              TRUE)
             /\ result' = render_envelope("ok", "", key, plotCache[key], TRUE)
             /\ UNCHANGED plotCache
        ELSE /\ renders' = at(caller, "drawing", key, "", NoId, FALSE)
             /\ plotCache' = [k \in DOMAIN plotCache \ {key} |-> plotCache[k]]
             /\ UNCHANGED result
    /\ UNCHANGED <<regVars, cache, plotFiles, plotCacheFile, plotUuid,
                   savedArtifacts, produced>>
    /\ UNCHANGED <<ledgerVars, qualityVars, userPreferences, state,
                   toolContexts, lineageWalk>>

\* ... from get_dataset to fig.savefig(file_path)
render_draw(caller, limit) ==
    /\ caller \in DOMAIN renders
    /\ renders[caller].pc = "drawing"
    /\ LET key == renders[caller].key
           got == get_dataset_cached(key.dataset_id)
           file_path == plotUuid + 1
       IN
       IF ~got.found
       THEN /\ renders' = at(caller, "returned", key, "error", NoId, FALSE)
            /\ result' = render_envelope("error", "render_error", key, NoId,
                                         FALSE)
            /\ UNCHANGED <<regVars, cache, plotFiles, plotUuid, produced>>
       ELSE IF plot_raises(got.df, key.chart_type, key.x, key.y)
       THEN /\ renders' = at(caller, "returned", key, "error", NoId, FALSE)
            /\ result' = render_envelope("error", "render_error", key, NoId,
                                         FALSE)
            /\ cache' = got.cache
            /\ datasets' = got.mem
            /\ UNCHANGED <<dbDatasets, parquetFiles, uuidCount, registered,
                           plotFiles, plotUuid, produced>>
       ELSE /\ plotUuid < limit
            /\ renders' = at(caller, "saved", key, "", file_path, FALSE)
            /\ cache' = got.cache
            /\ datasets' = got.mem
            /\ plotUuid' = file_path
            /\ plotFiles' = plotFiles \cup {file_path}
            /\ produced' = produced \cup {<<key, file_path>>}
            /\ UNCHANGED <<dbDatasets, parquetFiles, uuidCount, registered,
                           result>>
    /\ UNCHANGED <<plotCache, plotCacheFile, savedArtifacts>>
    /\ UNCHANGED <<ledgerVars, qualityVars, userPreferences, state,
                   toolContexts, lineageWalk>>

\* ... _PLOT_CACHE[cache_key] = file_path, _save_plot_cache() and the return
render_store(caller) ==
    /\ caller \in DOMAIN renders
    /\ renders[caller].pc = "saved"
    /\ LET key == renders[caller].key
           file_path == renders[caller].file_path
           stored == [k \in DOMAIN plotCache \cup {key} |->
                        IF k = key THEN file_path ELSE plotCache[k]]
       IN
       /\ plotCache' = stored
       /\ \E written \in BOOLEAN :
           plotCacheFile' = IF written THEN serializable(stored)
                            ELSE plotCacheFile
       /\ renders' = at(caller, "returned", key, "ok", file_path, FALSE)
       /\ result' = render_envelope("ok", "", key, file_path, FALSE)
    /\ UNCHANGED <<regVars, cache, plotFiles, plotUuid, savedArtifacts,
                   produced>>
    /\ UNCHANGED <<ledgerVars, qualityVars, userPreferences, state,
                   toolContexts, lineageWalk>>

race_ingest == ingest_csv(MaxVizDatasets)

NextRace ==
    \/ race_ingest
    \/ \E caller \in Callers : render_lookup(caller)
    \/ \E caller \in Callers : render_draw(caller, MaxRacePlots)
    \/ \E caller \in Callers : render_store(caller)

SpecRace == Init /\ [][NextRace]_vars

(***************************************************************************)
(* Confirmation tools (quality_loop_tools.py, eda_viz_tools.py): a tool    *)
(* that finds no confirmation in its ToolContext asks for one and returns; *)
(* once the user has answered, the same function call is run again.        *)
(***************************************************************************)
MaxCalls == 2

\* tool_context.tool_confirmation: None, or the user's answer
NoConfirmation == [is_none |-> TRUE, confirmed |-> FALSE]

ToolConfirmation(confirmed) == [is_none |-> FALSE, confirmed |-> confirmed]

\* what a confirmation tool returns and how often it called
\* request_confirmation; a key absent from the returned dict is NoneStr
confirmation_outcome(requests, status, action, detail) ==
    [requests |-> requests,
     payload  |-> [ok |-> TRUE, status |-> status, action |-> action,
                   detail |-> detail]]

\* the readiness band shown to the user
band(score) ==
    IF score >= 90 THEN "Ready"
    ELSE IF score >= 75 THEN "Minor fixes needed"
    ELSE IF score >= 50 THEN "Needs work"
    ELSE "Not ready"

\* offer_quality_loop_tool that asks again when it is resumed
offer_quality_loop_asks_again(tool_confirmation, score) ==
    IF tool_confirmation.is_none
    THEN confirmation_outcome(1, "pending", NoneStr,
                              band(score))
    ELSE IF tool_confirmation.confirmed
    THEN confirmation_outcome(1, "approved", "run_loop", "")
    ELSE confirmation_outcome(1, "rejected", "continue", "")

\* offer_quality_loop_tool
offer_quality_loop(tool_confirmation, score) ==
    IF tool_confirmation.is_none
    THEN confirmation_outcome(1, "pending", NoneStr,
                              band(score))
    ELSE IF tool_confirmation.confirmed
    THEN confirmation_outcome(0, "approved", "run_loop", "")
    ELSE confirmation_outcome(0, "rejected", "continue", "")

\* check_outlier_comparison_tool
check_outlier_comparison(tool_confirmation, outlier_pct) ==
    IF tool_confirmation.is_none
    THEN confirmation_outcome(1, "pending", NoneStr,
                              outlier_pct)
    ELSE IF tool_confirmation.confirmed
    THEN confirmation_outcome(0, "approved", "create_comparison", "")
    ELSE confirmation_outcome(0, "rejected", "skip_comparison", "")

\* The function calls a tool may be run for: a new one, or one the user has
\* answered (the framework does not run a call again while it is pending)
runnable(call, tool) ==
    IF call \in DOMAIN toolContexts
    THEN /\ toolContexts[call].tool = tool
         /\ ~toolContexts[call].tool_confirmation.is_none
    ELSE call = Cardinality(DOMAIN toolContexts) + 1

\* the ToolContext a function call is run with
tool_context(call, tool, argument) ==
    IF call \in DOMAIN toolContexts
    THEN toolContexts[call]
    ELSE [tool |-> tool, argument |-> argument,
          tool_confirmation |-> NoConfirmation, requested |-> 0]

\* a confirmation tool run for a function call, answering with outcome
run_confirmation_tool(call, context, outcome) ==
    /\ toolContexts' =
        [c \in DOMAIN toolContexts \cup {call} |->
            IF c = call
            THEN [context EXCEPT !.requested = @ + outcome.requests]
            ELSE toolContexts[c]]
    /\ result' = [ledger_envelope(context.tool, "ok", "", outcome.payload)
                    EXCEPT !.requested =
                        [call |-> call,
                         tool_confirmation |-> context.tool_confirmation]]
    /\ UNCHANGED <<regVars, vizVars, ledgerVars, qualityVars,
                   userPreferences, state, renders, lineageWalk>>

offer_quality_loop_tool ==
    \E call \in 1..MaxCalls, score \in {40, 80, 95} :
        /\ runnable(call, "offer_quality_loop")
        /\ LET context == tool_context(call, "offer_quality_loop",
                                       score)
           IN run_confirmation_tool(call, context,
                  offer_quality_loop(context.tool_confirmation,
                                     context.argument))

check_outlier_comparison_tool ==
    \E call \in 1..MaxCalls, outlier_pct \in {15, 30} :
        /\ runnable(call, "check_outlier_comparison")
        /\ LET context == tool_context(call, "check_outlier_comparison",
                                       outlier_pct)
           IN run_confirmation_tool(call, context,
                  check_outlier_comparison(context.tool_confirmation,
                                           context.argument))

\* the user approves or rejects a request that is pending
user_answers ==
    /\ \E call \in DOMAIN toolContexts, confirmed \in BOOLEAN :
        /\ toolContexts[call].tool_confirmation.is_none
        /\ toolContexts[call].requested > 0
        /\ toolContexts' =
            [toolContexts EXCEPT ![call].tool_confirmation =
                                    ToolConfirmation(confirmed)]
    /\ result' = wrap_success("user_answers", NoId, NoId, 0, 0)
    /\ UNCHANGED <<regVars, vizVars, ledgerVars, qualityVars,
                   userPreferences, state, renders, lineageWalk>>

NextConfirmation ==
    \/ offer_quality_loop_tool
    \/ check_outlier_comparison_tool
    \/ user_answers

SpecConfirmation == Init /\ [][NextConfirmation]_vars

(***************************************************************************)
(* Long-running EDA plans kept in the session state                        *)
(* (long_running_eda_tool.py).                                             *)
(***************************************************************************)
MaxPlans == 2

MaxUpdates == 1

\* "eda-run-" + uuid4().hex[:8] of the n-th plan started
OperationIds ==
    <<"eda-run-1", "eda-run-2", "eda-run-3", "eda-run-4", "eda-run-5">>

\* "temp:heavy_eda_plan:" + operation_id
PlanKeys ==
    <<"temp:heavy_eda_plan:eda-run-1", "temp:heavy_eda_plan:eda-run-2",
      "temp:heavy_eda_plan:eda-run-3", "temp:heavy_eda_plan:eda-run-4",
      "temp:heavy_eda_plan:eda-run-5">>

plan_key(operation_id) ==
    PlanKeys[CHOOSE n \in DOMAIN OperationIds : OperationIds[n] = operation_id]

index_key == "temp:heavy_eda_index"

\* tool_context.state.get(index_key, [])
plan_index == IF index_key \in DOMAIN state THEN state[index_key] ELSE <<>>

\* the operation ids a caller may name: those started and one that was not
KnownOperationIds == {OperationIds[n] : n \in 1..(Len(plan_index) + 1)}

\* _get_plan: found, and the plan
_get_plan(operation_id) ==
    IF plan_key(operation_id) \in DOMAIN state
    THEN [found |-> TRUE, plan |-> state[plan_key(operation_id)]]
    ELSE [found |-> FALSE, plan |-> <<>>]

\* _save_plan, on a state dict
_save_plan(dict, operation_id, plan) ==
    dict_update(dict, [k \in {plan_key(operation_id)} |-> plan])

\* any(k in lower_req for k in keywords)
any_in(keywords, raw_requested) == \E i \in DOMAIN raw_requested : raw_requested[i] \in keywords

\* the steps heavy_eda_long_running plans for the raw_requested tokens
planned_steps(raw_requested) ==
    LET steps ==
            (IF any_in({"describe", "summary", "statistics"}, raw_requested)
             THEN <<"descriptive_statistics">> ELSE <<>>)
         \o (IF any_in({"test", "hypothesis", "inference"}, raw_requested)
             THEN <<"inference_tests">> ELSE <<>>)
         \o (IF any_in({"plot", "chart", "visual", "visualization", "graph"},
                       raw_requested)
             THEN <<"visualizations">> ELSE <<>>)
         \o (IF any_in({"transform", "wrangle", "feature", "clean"}, raw_requested)
             THEN <<"data_transformation">> ELSE <<>>)
    IN  IF steps = <<>>
        THEN <<"descriptive_statistics", "visualizations">>
        ELSE steps

\* the tool answers of this file: the dict returned, and what it was asked
plan_envelope(op, status, error_type, operation_id, data) ==
    [ledger_envelope(op, status, error_type, data)
        EXCEPT !.requested = operation_id]

\* heavy_eda_long_running: a new plan under a new operation id.  The keys a
\* later tool adds to the plan are absent (None) at the start.
heavy_eda_long_running ==
    /\ Len(plan_index) < MaxPlans
    /\ \E dataset_id \in Handles,
          raw_requested \in {<<>>, <<"describe", "test", "plot">>} :
        LET operation_id == OperationIds[Len(plan_index) + 1]
            got == get_dataset(dataset_id)
            row_count == IF got.found THEN NRows(got.df) ELSE NoneNum
            steps == planned_steps(raw_requested)
            comprehensive == Len(steps) >= 3 \/ row_count > 5000
            plan == [operation_id  |-> operation_id,
                     dataset_id    |-> dataset_id,
                     planned_steps |-> steps,
                     row_count     |-> row_count,
                     comprehensive |-> comprehensive,
                     status        |-> NoneStr,
                     cancelled_at  |-> NoneNum,
                     cancel_reason |-> NoneStr,
                     updates       |-> <<>>,
                     last_update   |-> NoneStr]
        IN
        /\ datasets' = got.mem
        /\ state' = dict_update(_save_plan(state, operation_id, plan),
                        [k \in {index_key} |->
                            Append(plan_index, operation_id)])
        /\ result' = plan_envelope("start", "ok", "", operation_id,
                        [operation_id  |-> operation_id,
                         status        |-> "started",
                         planned_steps |-> steps,
                         comprehensive |-> comprehensive])
    /\ UNCHANGED <<dbDatasets, parquetFiles, uuidCount, registered>>
    /\ UNCHANGED <<vizVars, ledgerVars, qualityVars, userPreferences, renders,
                   toolContexts, lineageWalk>>

\* heavy_eda_progress_update_tool, while a plan holds fewer than limit updates
progress_update(limit) ==
    /\ \E operation_id \in KnownOperationIds, status \in {"running"} :
        LET got == _get_plan(operation_id)
            updates == Append(got.plan.updates, status)
        IN
        IF ~got.found
        THEN /\ result' = plan_envelope("progress_update", "error",
                                        "not_found", operation_id, <<>>)
             /\ UNCHANGED state
        ELSE /\ Len(got.plan.updates) < limit
             /\ state' = _save_plan(state, operation_id,
                            [got.plan EXCEPT !.updates = updates,
                                             !.last_update = status])
             /\ result' = plan_envelope("progress_update", "ok", "",
                            operation_id,
                            [operation_id  |-> operation_id,
                             status        |-> status,
                             updates_count |-> Len(updates)])
    /\ UNCHANGED <<regVars, vizVars, ledgerVars, qualityVars,
                   userPreferences, renders, toolContexts, lineageWalk>>

heavy_eda_progress_update_tool == progress_update(MaxUpdates)

\* datetime.utcnow(): the times a cancellation can be stamped with
Times == {1, 2}

\* the cancelled plan: status, time and, for a reason that is not empty, reason
cancelled_plan(plan, now, reason) ==
    [plan EXCEPT !.status = "cancelled",
                 !.cancelled_at = now,
                 !.cancel_reason = IF reason \notin {NoneStr, ""} THEN reason
                                   ELSE @]

\* the cancel tool's test of a plan that was cancelled before, left out
is_cancelled_unchecked(plan) == FALSE

\* plan.get("status") == "cancelled"
is_cancelled(plan) == plan.status = "cancelled"

heavy_eda_cancel_tool ==
    /\ \E operation_id \in KnownOperationIds, reason \in {NoneStr, "stop"},
          now \in Times :
        LET got == _get_plan(operation_id) IN
        IF ~got.found
        THEN /\ result' = plan_envelope("cancel", "error", "not_found",
                                        operation_id, <<>>)
             /\ UNCHANGED state
        ELSE IF is_cancelled(got.plan)
        THEN /\ result' = plan_envelope("cancel", "ok", "", operation_id,
                            [operation_id |-> operation_id,
                             status       |-> "already_cancelled",
                             reason       |-> NoneStr])
             /\ UNCHANGED state
        ELSE /\ state' = _save_plan(state, operation_id,
                                    cancelled_plan(got.plan, now, reason))
             /\ result' = plan_envelope("cancel", "ok", "", operation_id,
                            [operation_id |-> operation_id,
                             status       |-> "cancelled",
                             reason       |-> reason])
    /\ UNCHANGED <<regVars, vizVars, ledgerVars, qualityVars,
                   userPreferences, renders, toolContexts, lineageWalk>>

\* the entry of find_active for a plan
active_entry(plan) ==
    [operation_id  |-> plan.operation_id,
     dataset_id    |-> plan.dataset_id,
     status        |-> plan.status,
     planned_steps |-> plan.planned_steps,
     comprehensive |-> plan.comprehensive,
     last_update   |-> plan.last_update]

\* the loop of heavy_eda_find_active_tool over the index, from position k
RECURSIVE find_active_loop(_, _, _)
find_active_loop(active, dataset_id, k) ==
    IF k > Len(plan_index)
    THEN active
    ELSE LET got == _get_plan(plan_index[k]) IN
         IF ~got.found
         THEN find_active_loop(active, dataset_id, k + 1)
         ELSE IF got.plan.status = "cancelled"
         THEN find_active_loop(active, dataset_id, k + 1)
         ELSE IF dataset_id # NoId /\ got.plan.dataset_id # dataset_id
         THEN find_active_loop(active, dataset_id, k + 1)
         ELSE find_active_loop(Append(active, active_entry(got.plan)),
                               dataset_id, k + 1)

heavy_eda_find_active_tool ==
    /\ \E dataset_id \in {NoId} \cup Handles :
        LET active == find_active_loop(<<>>, dataset_id, 1) IN
        result' = plan_envelope("find_active", "ok", "", "",
                                [active_plans |-> active,
                                 count        |-> Len(active)])
    /\ UNCHANGED <<regVars, vizVars, ledgerVars, qualityVars, sessionVars>>

NextPlans ==
    \/ heavy_eda_long_running
    \/ heavy_eda_progress_update_tool
    \/ heavy_eda_cancel_tool
    \/ heavy_eda_find_active_tool

SpecPlans == Init /\ [][NextPlans]_vars

(***************************************************************************)
(* The metadata store under direct save_dataset calls, and the loop of     *)
(* get_dataset_lineage taken one iteration at a time.                      *)
(***************************************************************************)
MaxStoreDatasets == 2

MaxLineage == 4

\* the dataset ids passed to save_dataset
StoreIds == 1..MaxStoreDatasets

\* PersistentStore.save_dataset(df, dataset_id, filename, parent_dataset_id)
store_save_dataset ==
    /\ lineageWalk.pc # "loop"
    /\ \E dataset_id \in StoreIds, parent_dataset_id \in {NoId} \cup StoreIds,
          outcome \in SaveOutcomes :
        /\ parquetFiles' = save_dataset_files(parquetFiles, CsvFrame,
                                              dataset_id, outcome)
        /\ dbDatasets' = save_dataset_rows(dbDatasets, CsvFrame, dataset_id,
                                           "unknown", parent_dataset_id,
                                           NoneStr, outcome)
        /\ result' = IF outcome = "saved"
                     THEN wrap_success("save_dataset", dataset_id, NoId, 0,
                                       NRows(CsvFrame))
                     ELSE Raised("save_dataset", "sqlite3.Error", dataset_id)
    /\ UNCHANGED <<datasets, uuidCount, registered>>
    /\ UNCHANGED <<vizVars, ledgerVars, qualityVars, sessionVars>>

\* get_dataset_lineage(dataset_id): lineage = [], current_id = dataset_id
lineage_call ==
    /\ lineageWalk.pc # "loop"
    /\ \E dataset_id \in StoreIds :
        lineageWalk' = [pc |-> "loop", current_id |-> dataset_id,
                        lineage |-> <<>>]
    /\ UNCHANGED <<regVars, vizVars, ledgerVars, qualityVars, result>>
    /\ UNCHANGED <<userPreferences, state, renders, toolContexts>>

\* one test of `while current_id` and one pass through the body, while the
\* list holds fewer than limit entries
lineage_iteration(limit) ==
    /\ lineageWalk.pc = "loop"
    /\ IF lineageWalk.current_id # NoId
          /\ get_dataset_metadata(lineageWalk.current_id)
       THEN /\ Len(lineageWalk.lineage) < limit
            /\ lineageWalk' =
                [lineageWalk EXCEPT
                    !.lineage = Append(@, lineageWalk.current_id),
                    !.current_id =
                        dbDatasets[lineageWalk.current_id].parent_dataset_id]
            /\ UNCHANGED result
       ELSE /\ lineageWalk' = [lineageWalk EXCEPT !.pc = "returned"]
            /\ result' = [wrap_success("store_lineage", NoId, NoId, 0, 0)
                            EXCEPT !.lineage = lineageWalk.lineage]
    /\ UNCHANGED <<regVars, vizVars, ledgerVars, qualityVars>>
    /\ UNCHANGED <<userPreferences, state, renders, toolContexts>>

lineage_loop_iteration == lineage_iteration(MaxLineage)

NextStoreLineage ==
    \/ store_save_dataset
    \/ lineage_call
    \/ lineage_loop_iteration

\* a call that can take its next iteration does take it
SpecStoreLineage ==
    Init /\ [][NextStoreLineage]_vars /\ WF_vars(lineage_loop_iteration)

(***************************************************************************)
(* The dataset access cache next to the registry (dataset_cache.py).       *)
(***************************************************************************)
\* dataset_cache.get_dataset_cached called directly
GetDatasetCached ==
    \E dataset_id \in Handles :
        LET got == get_dataset_cached(dataset_id) IN
        /\ cache' = got.cache
        /\ datasets' = got.mem
        /\ result' = IF got.found
                     THEN [wrap_success("get_cached", dataset_id, NoId, 0,
                                        NRows(got.df))
                             EXCEPT !.df = got.df]
                     ELSE Raised("get_cached", "KeyError", dataset_id)
        /\ UNCHANGED <<dbDatasets, parquetFiles, uuidCount, registered>>
        /\ UNCHANGED <<plotCache, plotFiles, plotCacheFile, plotUuid,
                       savedArtifacts, produced>>
        /\ UNCHANGED <<ledgerVars, qualityVars, sessionVars>>

cache_register == ingest_csv(MaxDatasets)

NextCache ==
    \/ cache_register
    \/ GetDataset
    \/ GetDatasetCached
    \/ clear_datasets
    \/ clear_cache

SpecCache == Init /\ [][NextCache]_vars

(***************************************************************************)
(* Properties of the registry and of the wrangle tools.                    *)
(***************************************************************************)
WrangleOps == {"filter", "select", "mutate", "remove_outliers"}

\* get(dataset_id) would succeed / the table it would return
Resolves(dataset_id) == get_dataset(dataset_id).found

Payload(dataset_id) == Table(get_dataset(dataset_id).df)

KnownHandles == {h \in 1..uuidCount : Resolves(h)}

\* C1: every successful result of filter, select, mutate and remove_outliers
\* carries a new_dataset_id different from the input dataset_id.
C1_NewIdDiffers ==
    (result.op \in WrangleOps /\ result.status = "ok")
        => result.new_dataset_id # result.dataset_id

\* C2: a wrangle operation, succeeding or failing, leaves every dataset that
\* get could return before it resolvable with the same columns and values, and
\* adds at most the one new registry entry it returns.
C2_SourceNotMutated ==
    [][result'.op \in WrangleOps =>
        /\ \A h \in KnownHandles :
            /\ h \in KnownHandles'
            /\ Payload(h)' = Payload(h)
        /\ KnownHandles' \ KnownHandles \subseteq {result'.new_dataset_id}]_vars

C2_Witness ==
    /\ result.op = "mutate"
    /\ result.status = "ok"
    /\ Resolves(result.dataset_id)
    /\ Payload(result.dataset_id) = registered[result.dataset_id].table
    /\ Payload(result.new_dataset_id) # Payload(result.dataset_id)

\* C3: after every successful wrangle operation lineage(new_dataset_id) is
\* non-empty, starts with new_dataset_id and continues with
\* original_dataset_id.
C3_LineageParent ==
    (result.op \in WrangleOps /\ result.status = "ok") =>
        LET lineage == get_dataset_lineage(result.new_dataset_id) IN
        /\ Len(lineage) >= 2
        /\ lineage[1] = result.new_dataset_id
        /\ lineage[2] = result.dataset_id

\* Sequences of handles without bound on their order
Chains == UNION {[1..n -> 1..uuidCount] : n \in 1..uuidCount}

\* chain[1] was saved with parent chain[2], ..., the last with no parent
IsRegisteredChain(chain) ==
    \A i \in 1..Len(chain) :
        /\ registered[chain[i]].saved
        /\ registered[chain[i]].parent =
            (IF i < Len(chain) THEN chain[i + 1] ELSE NoId)

InDurableStorage(dataset_id) ==
    dataset_id \in DOMAIN dbDatasets /\ dataset_id \in DOMAIN parquetFiles

Held(h) == registered[h].saved \/ ~registered[h].cleared

C7_FailureSurfaced ==
    (/\ result.op \in WrangleOps \cup {"ingest"}
     /\ result.status = "ok"
     /\ result.new_dataset_id # result.dataset_id
     /\ ~registered[result.new_dataset_id].saved) =>
        /\ result.new_dataset_id \in DOMAIN datasets
        /\ result.persist_warning

MemoryMatchesDurable ==
    \A h \in DOMAIN datasets \cap DOMAIN parquetFiles :
        Table(datasets[h]) = parquetFiles[h]

\* C8: a registration draws a handle that is in neither the in-memory map nor
\* the durable store, and no step replaces the columns or values held for a
\* handle in memory or in durable storage, nor its metadata row.
C8_PayloadImmutable ==
    [][/\ \A h \in DOMAIN datasets \cap DOMAIN datasets' :
            Table(datasets'[h]) = Table(datasets[h])
       /\ \A h \in DOMAIN dbDatasets :
            h \in DOMAIN dbDatasets' /\ dbDatasets'[h] = dbDatasets[h]
       /\ \A h \in DOMAIN parquetFiles :
            h \in DOMAIN parquetFiles' /\ parquetFiles'[h] = parquetFiles[h]
       /\ MemoryMatchesDurable'
       /\ uuidCount' # uuidCount =>
            /\ result'.new_dataset_id \notin
                (DOMAIN datasets \cup DOMAIN dbDatasets
                    \cup DOMAIN parquetFiles)
            /\ result'.new_dataset_id \in DOMAIN datasets']_vars

\* a derived dataset, cleared from memory and loaded back, next to its parent
C8_Witness ==
    \E h \in DOMAIN datasets \cap DOMAIN dbDatasets :
        /\ registered[h].cleared
        /\ registered[h].parent # NoId
        /\ Table(datasets[h]) = registered[h].table
        /\ dbDatasets[h].parent_dataset_id = registered[h].parent
        /\ registered[h].parent \in DOMAIN dbDatasets


(***************************************************************************)
(* Properties of the render tool.                                          *)
(***************************************************************************)
\* C9: a render of a spec tuple for which an earlier render produced an
\* artifact that is still present returns that artifact's path with
\* reused = true, and writes no new plot file and saves no new artifact.
C9_SecondRenderReuses ==
    [][(/\ result'.op = "render"
        /\ \E e \in produced : e[1] = result'.key /\ e[2] \in plotFiles) =>
            /\ result'.status = "ok"
            /\ result'.reused
            /\ <<result'.key, result'.file_path>> \in produced
            /\ result'.file_path \in plotFiles
            /\ plotFiles' = plotFiles
            /\ savedArtifacts' = savedArtifacts
            /\ plotUuid' = plotUuid]_vars

\* C10: a render that finds a plot cache entry for its key whose file is gone
\* returns the path of an existing file with reused = false, and leaves the
\* plot cache mapping the key to that new path.
C10_StaleEntryRegenerated ==
    [][(/\ result'.op = "render"
        /\ result'.key \in DOMAIN plotCache
        /\ plotCache[result'.key] \notin plotFiles) =>
            /\ result'.status = "ok"
            /\ ~result'.reused
            /\ result'.file_path \in plotFiles'
            /\ result'.key \in DOMAIN plotCache'
            /\ plotCache'[result'.key] = result'.file_path
            /\ plotCache'[result'.key] # plotCache[result'.key]]_vars


\* C11: a restart keeps the render-cache index: when plot_cache.json holds
\* what the last save wrote for the plot cache, every key whose plot file
\* still exists maps to the same path after the index is loaded again.
C11_IndexSurvivesRestart ==
    [][(result'.op = "restart" /\ plotCacheFile = serializable(plotCache)) =>
        \A key \in DOMAIN plotCache :
            plotCache[key] \in plotFiles =>
                /\ key \in DOMAIN plotCache'
                /\ plotCache'[key] = plotCache[key]]_vars


\* C12: a render request for a scatter or line chart without y fails before
\* any rendering work: the call returns an error and changes neither the
\* dataset maps, nor the plot cache, nor the plot files.
C12_PreconditionFailsFast ==
    [][(/\ result'.op = "render"
        /\ result'.key.chart_type \in {SCATTER, LINE}
        /\ result'.key.y = NoneStr) =>
            /\ result'.status = "error"
            /\ UNCHANGED <<regVars, vizVars>>]_vars


\* C13: resolution maps the alias "box_plot" to chart_type "box", and maps
\* every accepted alias of the box plot to one chart_type value.
C13_BoxPlotResolvesToBox ==
    (/\ result.op = "resolve"
     /\ result.status = "ok"
     /\ result.requested \in {BOX, BOXPLOT, BOX_PLOT, <<"B", "o", "x">>}) =>
        result.key.chart_type = BOX

(***************************************************************************)
(* Properties of the run ledger.                                           *)
(***************************************************************************)
Saves == {"save_run", "save_analysis_run"}

\* the run as get_run reads it back: a false readiness score comes back None
AsStored(run) == _row_to_run(run_to_row(run))

\* C14: a save leaves one record under its run_id and every other record as
\* it was, and get(run_id) returns the content of the last save, in which
\* an empty readiness score reads back as None.
C14_SaveIsUpsert ==
    [][/\ (result'.op \in Saves /\ result'.status = "ok") =>
            /\ DOMAIN runs' = DOMAIN runs \cup {result'.data.run_id}
            /\ \A r \in DOMAIN runs \ {result'.data.run_id} :
                    runs'[r] = runs[r]
            /\ _row_to_run(runs'[result'.data.run_id]) = AsStored(result'.data)
       /\ (result'.op = "get_run" /\ result'.status = "ok") =>
            result'.data = AsStored(lastSave'[result'.data.run_id].run)]_vars

\* C14 as stated: get(run_id) returns exactly the content of the last save.
C14_GetReturnsLastSave ==
    [][(result'.op = "get_run" /\ result'.status = "ok") =>
            result'.data = lastSave'[result'.data.run_id].run]_vars

\* a run saved over an earlier one is read back while another run is stored
C14_Witness ==
    /\ result.op = "get_run"
    /\ result.status = "ok"
    /\ lastSave[result.data.run_id].resaved
    /\ DOMAIN runs # {result.data.run_id}

\* C15: the ledger is append-only: no ledger operation changes or removes
\* the content stored for a run_id.
C15_AppendOnly ==
    [][\A r \in DOMAIN runs :
          r \in DOMAIN runs' /\ runs'[r] = runs[r]]_vars

\* the stored run carries a readiness score that has an overall value
HasOverall(run) ==
    ~run.readiness_score.is_none /\ "overall" \in DOMAIN run.readiness_score.value

\* C16: compare never fabricates a measurement: readiness_delta is b.overall
\* minus a.overall when both runs carry one and null otherwise, and
\* p_value_changes has one entry per test of either run, null on the side
\* whose run lacks the test.
C16_CompareNeverFabricates ==
    (result.op = "compare_runs" /\ result.status = "ok") =>
        LET run_a == get_run(result.data.run_a).run
            run_b == get_run(result.data.run_b).run
        IN
        /\ result.data.readiness_delta =
              IF HasOverall(run_a) /\ HasOverall(run_b)
              THEN Some(run_b.readiness_score.value.overall
                        - run_a.readiness_score.value.overall)
              ELSE NoneFloat
        /\ DOMAIN result.data.p_value_changes =
              DOMAIN run_a.p_values \cup DOMAIN run_b.p_values
        /\ \A test \in DOMAIN result.data.p_value_changes :
              /\ result.data.p_value_changes[test].run_a =
                    IF test \in DOMAIN run_a.p_values
                    THEN run_a.p_values[test] ELSE NoneNum
              /\ result.data.p_value_changes[test].run_b =
                    IF test \in DOMAIN run_b.p_values
                    THEN run_b.p_values[test] ELSE NoneNum

(***************************************************************************)
(* Properties of the response envelope.                                    *)
(***************************************************************************)
\* the operations of the engine, as named in the results of the tools
EngineOps ==
    WrangleOps \cup {"ingest", "lineage", "render", "resolve", "get_run",
                     "compare_runs"}

\* C17: every operation returns an envelope with a boolean ok, which carries
\* an error with a type when ok is false; no exception escapes and nothing
\* else is returned.
C17_EveryOperationReturnsEnvelope ==
    result.op \in EngineOps =>
        /\ result.status \in {"ok", "error"}
        /\ result.status = "error" => result.error_type # ""

\* C18: a wrangle operation that fails leaves no partial state: nothing new is
\* registered in memory, no file or metadata record is written, and the known
\* handles and their payloads are what they were before the call.
C18_FailedWrangleLeavesNoState ==
    [][(result'.op \in WrangleOps /\ result'.status \in {"error", "raised"}) =>
          /\ UNCHANGED <<dbDatasets, parquetFiles, uuidCount, registered>>
          /\ DOMAIN datasets' \subseteq DOMAIN datasets \cup KnownHandles
          /\ KnownHandles' = KnownHandles
          /\ \A h \in KnownHandles : Payload(h)' = Payload(h)]_vars

\* a select was rejected for a missing column among columns the frame has
C18_Witness ==
    /\ result.op = "select"
    /\ result.status = "error"
    /\ result.error_type = "column_not_found"
    /\ result.dataset_id \in KnownHandles

\* the call has no outlier bounds for the requested columns: no metadata, no
\* entry for them, or entries without a bound
NoBoundsAvailable(request) ==
    \A c \in Range(requested(request.outlier_metadata.cwo, request.columns)) :
        c.lower_bound = NoneNum /\ c.upper_bound = NoneNum

\* C19: remove_outliers on an existing dataset with no outlier bounds for the
\* requested columns returns a success that reports a no-op with unchanged
\* row counts and registers nothing, whatever the reason.
C19_NoBoundsIsNoOp ==
    [][(/\ result'.op = "remove_outliers"
        /\ Resolves(result'.dataset_id)
        /\ NoBoundsAvailable(result'.requested)) =>
            /\ result'.status = "ok"
            /\ result'.n_after = result'.n_before
            /\ result'.new_dataset_id = result'.dataset_id
            /\ UNCHANGED <<dbDatasets, parquetFiles, uuidCount,
                           registered>>]_vars

(***************************************************************************)
(* Properties of the readiness score.                                      *)
(***************************************************************************)
\* C20: for every valid input the overall value and every component present
\* lie in [0, 100]; for row_count = 0 the result is overall = 0 with empty
\* components and the single empty-dataset note.
C20_ScoreWithinRange ==
    result.op = "readiness" =>
        LET readiness == result.data.readiness_score IN
        /\ readiness.overall \in 0..10000
        /\ \A name \in DOMAIN readiness.components :
              readiness.components[name] \in 0..10000
        /\ result.data.n_rows = 0 =>
              /\ readiness.overall = 0
              /\ readiness.components = EmptyDict
              /\ readiness.notes = <<"Empty dataset">>
        /\ result.data.n_rows > 0 =>
              DOMAIN readiness.components =
                  {"missingness", "duplicates", "constants",
                   "high_missing_columns", "outliers"}

\* a penalty larger than 100 was clamped, for a dataset without columns
C20_Witness ==
    /\ result.op = "readiness"
    /\ result.data.n_rows > 0
    /\ result.data.columns = <<>>
    /\ result.data.duplicate_pct = 100
    /\ result.data.readiness_score.components.duplicates = 0
    /\ result.data.readiness_score.overall = 8000

\* the non-missing values of the numeric columns, in hundredths of a value
NumericValues(n_rows, columns) ==
    sum([i \in DOMAIN columns |->
            IF columns[i].outlier_count = NoneNum THEN 0
            ELSE n_rows * (100 - columns[i].missing_pct)])

OutlierValues(columns) ==
    sum([i \in DOMAIN columns |->
            IF columns[i].outlier_count = NoneNum THEN 0
            ELSE columns[i].outlier_count])

\* C21: for row_count > 0 the outliers component is 100 minus 80 times the
\* ratio of the outlier values to the numeric values considered in the
\* numeric columns, clamped to [0, 100].
C21_OutlierPenalty ==
    (/\ result.op = "readiness"
     /\ result.data.n_rows > 0
     /\ NumericValues(result.data.n_rows, result.data.columns) > 0
     /\ 100 * OutlierValues(result.data.columns)
            <= NumericValues(result.data.n_rows, result.data.columns)) =>
        result.data.readiness_score.components.outliers =
            LET values == NumericValues(result.data.n_rows, result.data.columns)
                outliers == OutlierValues(result.data.columns)
            IN min(10000, round(max(0, 10000 * values - 800000 * outliers),
                                values))

(***************************************************************************)
(* Properties of the outlier detection.                                    *)
(***************************************************************************)
\* C22: the values flagged under "both" are the union of the values flagged
\* under "iqr" and under "zscore", each counted once, so the count under
\* "both" is at least the larger and at most the sum of the two counts.
C22_BothIsUnion ==
    (/\ result.op = "numeric_summary"
     /\ result.data.numeric_summary.outlier_method = "both") =>
        LET both == result.data.numeric_summary
            iqr == _numeric_summary(result.data.series, "iqr")
            zscore == _numeric_summary(result.data.series, "zscore")
        IN
        /\ both.flagged = iqr.flagged \cup zscore.flagged
        /\ both.outlier_count = Cardinality(both.flagged)
        /\ both.outlier_count >= max(iqr.outlier_count, zscore.outlier_count)
        /\ both.outlier_count <= iqr.outlier_count + zscore.outlier_count

\* under "both", a value that the z-score flags and the quartiles do not
C22_Witness ==
    /\ result.op = "numeric_summary"
    /\ result.data.numeric_summary.outlier_method = "both"
    /\ zscore_outliers_mask(result.data.series)
         \ iqr_outliers_mask(result.data.series) # {}
    /\ result.data.numeric_summary.outlier_count > 0

(***************************************************************************)
(* Properties of the inference tools.                                      *)
(***************************************************************************)
InferenceOps ==
    {"one_sample_test", "two_sample_test", "binomial_test", "clt_sampling"}

\* alpha lies strictly between 0 and 1
AlphaInRange(alpha) == 0 < alpha /\ alpha < 100

\* The preconditions of the inference operation that answered, read from the
\* arguments it was called with and the dataset it was called on
PreconditionsHold ==
    LET request == result.requested
        df == datasets[result.dataset_id]
    IN
    CASE result.op = "one_sample_test" ->
            /\ is_numeric_dtype(column_values(df, request.column))
            /\ Len(dropna(column_values(df, request.column))) > 0
            /\ AlphaInRange(request.alpha)
      [] result.op = "two_sample_test" ->
            /\ is_numeric_dtype(column_values(df, request.column))
            /\ Len(group_values(df, request.column, request.group_col,
                                request.group_a)) > 0
            /\ Len(group_values(df, request.column, request.group_col,
                                request.group_b)) > 0
            /\ AlphaInRange(request.alpha)
      [] result.op = "binomial_test" ->
            /\ request.n > 0
            /\ 0 <= request.successes /\ request.successes <= request.n
            /\ 0 < request.p0 /\ request.p0 < 100
            /\ AlphaInRange(request.alpha)
      [] result.op = "clt_sampling" ->
            /\ is_numeric_dtype(column_values(df, request.column))
            /\ Len(dropna(column_values(df, request.column))) > 0
            /\ request.sample_size > 0
            /\ request.n_samples > 0

\* C23: an inference operation answers with success only when the
\* preconditions of its input hold (numeric column, a non-empty sample or
\* groups, successes within [0, n], p0 and alpha strictly between 0 and 1,
\* positive sample sizes).
C23_SuccessOnlyFromValidInput ==
    (result.op \in InferenceOps /\ result.status = "ok") => PreconditionsHold

(***************************************************************************)
(* Properties of the best-effort saves.                                    *)
(***************************************************************************)
\* C24: a durable-storage failure never fails the operation it is attached
\* to: the summary step completes with its result and the preference-saving
\* operation returns an envelope, no exception escaping either of them.
C24_SaveFailureNeverEscapes ==
    result.op \in {"summary", "save_preferences"} => result.status # "raised"

(***************************************************************************)
(* Properties of the render cache under concurrent callers.                *)
(***************************************************************************)
\* the callers that have returned a plot for the key
Returned(key) ==
    {c \in DOMAIN renders : /\ renders[c].pc = "returned"
                            /\ renders[c].status = "ok"
                            /\ renders[c].key = key}

\* C25: the render cache has a single writer per key: whatever the
\* interleaving of the callers, a key is rendered at most once, the callers
\* that asked for it hold the same artifact path, and the cache maps the key
\* to that path.
C25_SingleWriterPerKey ==
    \A key \in {p[1] : p \in produced} :
        /\ Cardinality({p \in produced : p[1] = key}) <= 1
        /\ \A c1, c2 \in Returned(key) :
            renders[c1].file_path = renders[c2].file_path
        /\ \A c \in Returned(key) :
            key \in DOMAIN plotCache /\ plotCache[key] = renders[c].file_path

(***************************************************************************)
(* Properties of the two-sample test.                                      *)
(***************************************************************************)
\* -statistic; the negation of nan is nan
Negated(stat) == [stat EXCEPT !.num = -stat.num]

\* The number a probability term stands for, up to the symmetry of the
\* normal distribution: 1 - cdf(z) = cdf(-z)
Value(p) ==
    IF p.fn = "one_minus_cdf"
    THEN [p EXCEPT !.fn = "cdf", !.stat = Negated(p.stat)]
    ELSE p

\* the alternative that states the same hypothesis once the groups are swapped
Mirror(alternative) ==
    CASE alternative = "greater" -> "less"
      [] alternative = "less" -> "greater"
      [] OTHER -> alternative

\* the two-sample test that answered, run again with group_a and group_b
\* exchanged and the given alternative
Swapped(alternative) ==
    run_two_sample_test(datasets[result.dataset_id], result.requested.column,
                        result.requested.group_col, result.requested.group_b,
                        result.requested.group_a, result.requested.test_type,
                        alternative, result.requested.alpha)

\* C26: exchanging group_a and group_b on the same data negates mean_diff and
\* statistic, gives under "greater" the p_value "less" gave before (and under
\* "less" the one "greater" gave), and leaves the two-sided p_value as it was,
\* whatever the sign of the statistic, zero included.
C26_SwapSymmetry ==
    (result.op = "two_sample_test" /\ result.status = "ok") =>
        LET before == result.data
            after == Swapped(Mirror(result.requested.alternative))
        IN  /\ ~after.raised
            /\ after.payload.mean_diff.num = -before.mean_diff.num
            /\ after.payload.mean_diff.den = before.mean_diff.den
            /\ after.payload.statistic = Negated(before.statistic)
            /\ Value(after.payload.p_value) = Value(before.p_value)

\* a one-sided test whose statistic is exactly zero
C26_Witness ==
    /\ result.op = "two_sample_test"
    /\ result.status = "ok"
    /\ result.requested.alternative = "greater"
    /\ ~result.data.statistic.nan
    /\ result.data.statistic.num = 0

(***************************************************************************)
(* Properties of the confirmation tools.                                   *)
(***************************************************************************)
ConfirmationTools == {"offer_quality_loop", "check_outlier_comparison"}

\* the action a confirmation tool names for the user's answer
ActionOf(tool, confirmed) ==
    CASE tool = "offer_quality_loop" /\ confirmed -> "run_loop"
      [] tool = "offer_quality_loop" /\ ~confirmed -> "continue"
      [] tool = "check_outlier_comparison" /\ confirmed -> "create_comparison"
      [] tool = "check_outlier_comparison" /\ ~confirmed -> "skip_comparison"

Plans == {plan_index[k] : k \in DOMAIN plan_index}

PlanOf(operation_id) == state[plan_key(operation_id)]

CancelledPlans == {o \in Plans : PlanOf(o).status = "cancelled"}

\* find_active lists no cancelled plan
FindActiveSkipsCancelled ==
    result.op = "find_active" =>
        \A k \in DOMAIN result.data.active_plans :
            result.data.active_plans[k].operation_id \notin CancelledPlans

\* a cancelled plan keeps its status, its time and its reason in every step
CancelledStays ==
    \A o \in CancelledPlans :
        /\ PlanOf(o)'.status = "cancelled"
        /\ PlanOf(o)'.cancelled_at = PlanOf(o).cancelled_at
        /\ PlanOf(o)'.cancel_reason = PlanOf(o).cancel_reason

\* a cancel of a plan that is cancelled answers "already_cancelled"
SecondCancel ==
    (result'.op = "cancel" /\ result'.requested \in CancelledPlans) =>
        result'.data.status = "already_cancelled"

\* C28: cancellation is absorbing: a plan that was cancelled is not listed by
\* find_active again, no later operation (a progress update included) undoes
\* its cancelled status, and a second cancel answers "already_cancelled"
\* leaving cancelled_at and cancel_reason as they were.
C28_CancelIsAbsorbing ==
    /\ []FindActiveSkipsCancelled
    /\ [][CancelledStays /\ SecondCancel]_vars

\* a second cancel, with another reason, of a plan that was updated after it
\* was cancelled
C28_Witness ==
    /\ result.op = "cancel"
    /\ result.status = "ok"
    /\ result.data.status = "already_cancelled"
    /\ PlanOf(result.requested).cancel_reason = NoneStr
    /\ PlanOf(result.requested).last_update = "running"

(***************************************************************************)
(* Properties of get_dataset_lineage over the metadata store.              *)
(***************************************************************************)
\* no dataset occurs twice in the list built so far
EachAtMostOnce ==
    \A i, j \in DOMAIN lineageWalk.lineage :
        lineageWalk.lineage[i] = lineageWalk.lineage[j] => i = j

\* C29: over every metadata store that save_dataset calls can build, any
\* parent_dataset_id being accepted, a get_dataset_lineage call returns, and
\* the list it builds holds each dataset at most once.
C29_LineageTerminates ==
    /\ []EachAtMostOnce
    /\ (lineageWalk.pc = "loop") ~> (lineageWalk.pc = "returned")

(***************************************************************************)
(* Properties of the dataset access cache.                                 *)
(***************************************************************************)
\* C30: the dataset access cache is coherent with the registry: at any
\* moment get_dataset_cached(id) returns a payload only if get_dataset(id)
\* would return the same payload, and it fails with not-found whenever
\* get_dataset(id) would.
C30_CacheCoherent ==
    \A dataset_id \in Handles :
        LET cached == get_dataset_cached(dataset_id)
            direct == get_dataset(dataset_id)
        IN  /\ cached.found => (direct.found /\ direct.df = cached.df)
            /\ ~direct.found => ~cached.found

====
